---- MODULE Spec2Model ----
(***************************************************************************)
(* One invocation of callStepFile (packages/core/src/call-step-file.ts):  *)
(* the parent spawns a runner process through a ProcessManager, registers *)
(* the RPC handlers that proxy the worker's state / stream / emit / log / *)
(* result / close requests, and settles the returned promise from the     *)
(* process close and error callbacks.                                      *)
(*                                                                         *)
(* The worker is modelled as an arbitrary client of the RPC channel: any  *)
(* request, with any parameters, in any order, while it is alive.         *)
(***************************************************************************)
EXTENDS Integers, Sequences, FiniteSets, TLC

\* ---------------------------------------------------------------- bounds
\* Number of RPC requests one worker gets served in a run.
MaxRequests == 3
\* Number of frames the supervisor buffers before the handlers are registered.
MaxBuffered == 1
\* Number of state requests served in a run of the state API.
MaxOps == 3
\* Number of calls a handler makes, and how many it leaves unawaited at a time.
MaxCalls == 3
MaxInFlight == 2
\* Number of chunks a handler writes to stdout and stderr.
MaxChunks == 3
\* Number of registry mutations and emits in one history.
MaxRegistryOps == 5
\* Number of subscriptions one hook instance opens.
MaxSubs == 3
\* Largest number in a field of the latest tag.
MaxVersion == 2

\* ------------------------------------------------------------ value sets
TraceIds == {"t1", "t2"}
Keys == {"k1", "k2"}
Values == {"v1", "v2"}
Topics == {"b", "c"}
GroupIds == {"g1"}
ItemIds == {"i1"}
\* JSON null, JS undefined, and a field the worker left out of its params.
Null == "null"
Undefined == "undefined"
Absent == "absent"
\* The response to a request whose handler threw.
RpcError == "error"
\* Exit codes handed to the close callback: <<n>> is the number n, <<>> is
\* null (the process was terminated by a signal).
NullCode == <<>>
SpawnFailureCode == <<-2>>
ExitCodes == {<<0>>, <<1>>}
ErrorCodes == {"ENOENT", "EPIPE"}

\* ------------------------------------------------------------ variables
VARIABLES
  traceId,         \* options.traceId of this invocation
  filePath,        \* options.step.filePath
  testMode,        \* process.env._MOTIA_TEST_MODE === 'true'
  pmOptions,       \* the runner the ProcessManager was constructed with
  buffer,          \* frames received before the handlers were registered
  violation,       \* method of the request refused as unknown ("" : none)
  errorCode,       \* code of the error given to the error callback
  phase,           \* position of callStepFile: spawning / spawned / running / regFailed / spawnFailed
  proc,            \* the child process: none / running / absent / exited
  exitCode,        \* exit code of an exited child
  handlers,        \* RPC methods currently registered on the supervisor
  pmClosed,        \* processManager.close() has been called
  promise,         \* the promise returned by callStepFile
  result,          \* let result (line 71)
  store,           \* the InternalStateManager contents: (traceId, key) -> value
  streamItems,     \* the stream s1 contents: (groupId, id) -> data
  emitted,         \* events passed to eventManager.emit, in order
  warnings,        \* printer.printInvalidEmit calls, in order
  handled,         \* number of RPC requests served so far
  lastRpc,         \* the most recent served request and its response
  delivered,       \* value carried by the most recent result RPC (Undefined: none yet)
  closeDelivered,  \* the close callback has run
  closeCode,       \* the code it was given
  errorDelivered,  \* the error callback has run
  invs,            \* the invocations of a flow, in the order of their scheduling
  log,             \* the state requests served so far, with their responses
  chan,            \* the RPC channel of one worker: calls, pipe, handler calls, responses
  logger,          \* the calls of the invocation's logger, in their order
  run,             \* the runner process: position of runTypescriptModule, its output
  registry,        \* LockedData and the event manager's view of it
  hook,            \* a useStreamItem instance and the subscriptions it opened
  argv,            \* the spawn arguments of the executor and what the runner reads from them
  lockedStreams,   \* the names of the streams LockedData holds now
  tag,             \* one run of the "Calculate new version" step of the Create Tag workflow
  env              \* the process environment and file system seen by activatePythonVenv

\* File paths are sequences of characters.
DotPy == <<".", "p", "y">>
DotRb == <<".", "r", "b">>
DotJs == <<".", "j", "s">>
DotTs == <<".", "t", "s">>
PathBases == {<<>>, <<"s">>, <<"d", "/", "s">>}
PathEndings ==
  {DotPy, DotRb, DotJs, DotTs, <<>>, <<"p", "y">>, <<".", "t", "x", "t">>,
   <<".", "t", "s", "x">>, <<".", "j", "s", "o", "n">>, <<".", "P", "Y">>,
   DotPy \o DotTs, DotTs \o <<".", "b", "a", "k">>}
Paths == {b \o e : b \in PathBases, e \in PathEndings}
\* The two step files of the invocation model: a supported and an
\* unsupported one.
StepPaths == {<<"s">> \o DotTs, <<"s", ".", "t", "x", "t">>}

\* The step being executed (options.step).
step ==
  [filePath |-> filePath,
   config |-> [type |-> "event", name |-> "S",
               emits |-> <<[topic |-> "b", label |-> Absent]>>,
               flows |-> <<"f1">>]]

\* lockedData.getStreams(): the declared streams, in Object.entries order.
streamConfig == <<"s1">>

\* ------------------------------------------------------------- helpers
Range(s) == {s[i] : i \in 1..Len(s)}

\* utils.isAllowedToEmit: the topic is one of the step's declared emits
\* (an emits entry is a bare topic or a record with a topic field).
isAllowedToEmit(s, topic) ==
  topic \in {e.topic : e \in Range(s.config.emits)}

\* String.prototype.endsWith.
EndsWith(str, suffix) ==
  /\ Len(str) >= Len(suffix)
  /\ SubSeq(str, Len(str) - Len(suffix) + 1, Len(str)) = suffix

\* Variant: the test-mode branch is taken when the flag is not set.
getLanguageBasedRunner_TestModeInverted(stepFilePath) ==
  LET isPython == EndsWith(stepFilePath, DotPy)
      isRuby == EndsWith(stepFilePath, DotRb)
      isNode == EndsWith(stepFilePath, DotJs) \/ EndsWith(stepFilePath, DotTs)
  IN  IF isPython
        THEN [command |-> "python", runner |-> "python/python-runner.py", args |-> <<>>]
      ELSE IF isRuby
        THEN [command |-> "ruby", runner |-> "ruby/ruby-runner.rb", args |-> <<>>]
      ELSE IF isNode
        THEN IF ~testMode
               THEN [command |-> "node", runner |-> "node/node-runner.ts",
                     args |-> <<"-r", "ts-node/register">>]
               ELSE [command |-> "node", runner |-> "node/node-runner.js", args |-> <<>>]
      ELSE [command |-> "throw", runner |-> "Unsupported file extension", args |-> <<>>]

\* getLanguageBasedRunner (lines 19-47): the runner by file extension.  The
\* thrown Error is the record whose command is "throw".
getLanguageBasedRunner(stepFilePath) ==
  LET isPython == EndsWith(stepFilePath, DotPy)
      isRuby == EndsWith(stepFilePath, DotRb)
      isNode == EndsWith(stepFilePath, DotJs) \/ EndsWith(stepFilePath, DotTs)
  IN  IF isPython
        THEN [command |-> "python", runner |-> "python/python-runner.py", args |-> <<>>]
      ELSE IF isRuby
        THEN [command |-> "ruby", runner |-> "ruby/ruby-runner.rb", args |-> <<>>]
      ELSE IF isNode
        THEN IF testMode
               THEN [command |-> "node", runner |-> "node/node-runner.ts",
                     args |-> <<"-r", "ts-node/register">>]
               ELSE [command |-> "node", runner |-> "node/node-runner.js", args |-> <<>>]
      ELSE [command |-> "throw", runner |-> "Unsupported file extension", args |-> <<>>]

Throws(r) == r.command = "throw"
NoRunner == [command |-> "", runner |-> "", args |-> <<>>]

command == getLanguageBasedRunner(step.filePath).command

\* Rejection reasons of the returned promise.
NoReason == [msg |-> "", code |-> <<>>, text |-> ""]
RejExit(code) == [msg |-> "Process exited with code", code |-> code, text |-> ""]
RejNotFound(cmd) == [msg |-> "Executable not found", code |-> <<>>, text |-> cmd]
RejError(err) == [msg |-> "error", code |-> <<>>, text |-> err]
RejSpawn(err) == [msg |-> "Failed to spawn process", code |-> <<>>, text |-> err]
RejUnsupported == [msg |-> "Unsupported file extension", code |-> <<>>, text |-> ""]

\* RPC methods registered by callStepFile.
BaseMethods ==
  {"close", "log", "state.get", "state.set", "state.delete", "state.clear",
   "state.getGroup", "result", "emit"}
StreamOps == {"get", "set", "delete", "getGroup"}
StreamMethod(name, op) == "streams." \o name \o "." \o op
StreamMethods(names) == {StreamMethod(n, op) : n \in names, op \in StreamOps}
AllMethods == BaseMethods \cup StreamMethods(Range(streamConfig))
\* The fields of the params each stream handler reads.
StreamHandlerParams(op) ==
  CASE op = "get" -> {"groupId", "id"}
    [] op = "set" -> {"groupId", "id", "data"}
    [] op = "delete" -> {"groupId", "id"}
    [] op = "getGroup" -> {"groupId"}
    [] OTHER -> {}

\* The stream proxy the Node runner gives to a handler (node-runner.ts
\* lines 42-56): the methods it sends and the fields of their params.
RunnerStreamOps == {"get", "update", "delete", "create"}
RunnerStreamParams(op) ==
  CASE op = "get" -> {"id"}
    [] op = "update" -> {"id", "data"}
    [] op = "delete" -> {"id"}
    [] op = "create" -> {"id", "data"}
    [] OTHER -> {}
RunnerStreamMethods(names) == {StreamMethod(n, op) : n \in names, op \in RunnerStreamOps}

\* Every method a worker may put in a request.
WorkerMethods == AllMethods \cup RunnerStreamMethods(Range(streamConfig)) \cup {"bogus"}

vars ==
  <<env, tag, lockedStreams, argv, hook, registry, run, logger, chan, log, invs, traceId, filePath, testMode, pmOptions, phase, proc, exitCode, handlers, pmClosed, promise, result,
    store, streamItems, emitted, warnings, handled, lastRpc, delivered,
    closeDelivered, closeCode, errorDelivered, errorCode, buffer, violation>>

procVars == <<proc, exitCode>>
dataVars == <<store, streamItems, emitted, warnings, result, delivered>>
eventVars == <<closeDelivered, closeCode, errorDelivered, errorCode>>
chanVars == <<buffer, violation>>

\* Params of a request: the fields a method does not use are Absent.
NoParams ==
  [traceId |-> Absent, key |-> Absent, value |-> Absent, topic |-> Absent,
   data |-> Absent, flows |-> <<>>, groupId |-> Absent, id |-> Absent]

\* resp is the handler's return value, group the returned list (getGroup).
NoRpc == [method |-> "none", params |-> NoParams, resp |-> Undefined, group |-> {},
          settled |-> FALSE, afterResult |-> FALSE, early |-> FALSE]

Pending == [state |-> "pending", value |-> Undefined, reason |-> NoReason]

\* A call of the handler: its request id, whether the handler awaits it,
\* and how many responses the worker had received when it made the call.
NoFrame == [id |-> 0, method |-> "none", params |-> NoParams, awaited |-> FALSE, answered |-> 0]
\* A parent-side handler call: landed once the promise it returned has
\* resolved.
NoOp == [frame |-> NoFrame, landed |-> FALSE, resp |-> Undefined]
IdleChan ==
  [calls |-> <<>>, inbox |-> <<>>, running |-> NoOp, background |-> {}, responses |-> <<>>]

\* The runner before runTypescriptModule is entered: nothing written to
\* stdout / stderr (pipe), nothing handed to the parent's callbacks (seen).
IdleRun ==
  [pc |-> "idle", error |-> "", pipe |-> <<>>, seen |-> <<>>, value |-> Undefined,
   resultSent |-> FALSE, resultAnswered |-> FALSE]

\* No step loaded, no emit made.
SubscribedTopics == {"a", "b"}
IdleRegistry == [steps |-> {}, index |-> [t \in SubscribedTopics |-> {}], history |-> <<>>]

\* A hook instance that has not been mounted.
NoArgs == [streamName |-> "", id |-> ""]
NoDeps == [stream |-> "", streamName |-> "", id |-> ""]
\* What a render of the hook returned, for which args, and the
\* subscription the data came from (0: none).
NoReturn == [streamName |-> "", id |-> "", data |-> Null, from |-> 0]
IdleHook ==
  [mounted |-> FALSE, gone |-> FALSE, stream |-> "ws1", args |-> NoArgs, deps |-> NoDeps,
   dirty |-> FALSE, cleanup |-> 0, subs |-> <<>>, data |-> Null, event |-> 0,
   dataFrom |-> 0, returned |-> NoReturn]

\* No worker has been spawned for the envelope yet.
IdleArgv == [pc |-> "idle"]
\* The workflow step has not run.
IdleTag == [pc |-> "idle"]
\* activatePythonVenv has not been called.
IdleEnv == [pc |-> "idle"]

\* callStepFile has been called; the promise executor has not run yet.
InitCall ==
  /\ traceId \in TraceIds
  /\ pmOptions = NoRunner
  /\ buffer = <<>>
  /\ violation = ""
  /\ errorCode = ""
  /\ phase = "called"
  /\ proc = "none"
  /\ exitCode = NullCode
  /\ handlers = {}
  /\ pmClosed = FALSE
  /\ promise = Pending
  /\ result = Undefined
  /\ store = [t \in TraceIds, k \in Keys |-> Null]
  /\ streamItems = [g \in GroupIds, i \in ItemIds |-> Null]
  /\ emitted = <<>>
  /\ warnings = <<>>
  /\ handled = 0
  /\ lastRpc = NoRpc
  /\ delivered = Undefined
  /\ closeDelivered = FALSE
  /\ closeCode = NullCode
  /\ errorDelivered = FALSE
  /\ log = <<>>
  /\ chan = IdleChan
  /\ logger = <<>>
  /\ run = IdleRun
  /\ registry = IdleRegistry
  /\ hook = IdleHook
  /\ argv = IdleArgv
  /\ lockedStreams = Range(streamConfig)
  /\ tag = IdleTag
  /\ env = IdleEnv

Init ==
  /\ InitCall
  /\ filePath \in StepPaths
  /\ testMode = FALSE
  /\ invs = <<>>

\* --------------------------------------------------- promise settlement
\* Variant: every call of resolve / reject overwrites the outcome.
Settle_LastWins(p, st, v, r) == [state |-> st, value |-> v, reason |-> r]

\* resolve / reject of the promise executor: only the first call settles.
Settle(p, st, v, r) ==
  IF p.state = "pending" THEN [state |-> st, value |-> v, reason |-> r] ELSE p

Resolve(v) == promise' = Settle(promise, "resolved", v, NoReason)
Reject(r) == promise' = Settle(promise, "rejected", Undefined, r)

\* ------------------------------------------------------ state store (C3)
\* InternalStateManager over the (traceId, key) namespace.
StoreGet(st, t, k) == st[t, k]
StoreSet(st, t, k, v) == [st EXCEPT ![t, k] = v]
StoreDelete(st, t, k) == [st EXCEPT ![t, k] = Null]
StoreClear(st, t) == [x \in DOMAIN st |-> IF x[1] = t THEN Null ELSE st[x]]
StoreGetGroup(st, g) == {st[x] : x \in {y \in DOMAIN st : y[1] = g}} \ {Null}

\* A declared stream: items keyed by (groupId, id).
StreamGet(items, g, i) == items[g, i]
StreamSet(items, g, i, d) == [items EXCEPT ![g, i] = d]
StreamDelete(items, g, i) == [items EXCEPT ![g, i] = Null]
StreamGetGroup(items, g) == {items[x] : x \in {y \in DOMAIN items : y[1] = g}} \ {Null}

\* ------------------------------------------------------------ executor
\* Variant: the runner lookup failure is swallowed and the spawn goes on.
ExecutorRuns_SpawnsAnyway ==
  /\ phase = "called"
  /\ pmOptions' = getLanguageBasedRunner(step.filePath)
  /\ phase' = "spawning"
  /\ UNCHANGED <<env, tag, lockedStreams, argv, hook, registry, run, logger, chan, log, invs, traceId, filePath, testMode, promise, handlers, pmClosed, handled, lastRpc>>
  /\ UNCHANGED procVars
  /\ UNCHANGED dataVars
  /\ UNCHANGED eventVars
  /\ UNCHANGED chanVars

\* The promise executor up to processManager.spawn() (lines 66-84).  An
\* Error thrown by getLanguageBasedRunner leaves the executor before the
\* ProcessManager is constructed and rejects the promise.
ExecutorRuns ==
  /\ phase = "called"
  /\ LET r == getLanguageBasedRunner(step.filePath) IN
       IF Throws(r)
         THEN /\ phase' = "threw"
              /\ Reject(RejUnsupported)
              /\ pmOptions' = pmOptions
         ELSE /\ phase' = "spawning"
              /\ pmOptions' = r
              /\ promise' = promise
  /\ UNCHANGED <<env, tag, lockedStreams, argv, hook, registry, run, logger, chan, log, invs, traceId, filePath, testMode, handlers, pmClosed, handled, lastRpc>>
  /\ UNCHANGED procVars
  /\ UNCHANGED dataVars
  /\ UNCHANGED eventVars
  /\ UNCHANGED chanVars

\* ---------------------------------------------------------- supervisor
\* ProcessManager.spawn() resolves: the child object exists and its pipes
\* are attached; the executable may still turn out to be missing.
SpawnResolves ==
  /\ phase = "spawning"
  /\ phase' = "spawned"
  /\ proc' \in {"running", "absent"}
  /\ UNCHANGED <<env, tag, lockedStreams, argv, hook, registry, run, logger, chan, log, invs, traceId, filePath, testMode, pmOptions, exitCode, handlers, pmClosed, promise, handled, lastRpc>>
  /\ UNCHANGED dataVars
  /\ UNCHANGED eventVars
  /\ UNCHANGED chanVars

\* ProcessManager.spawn() rejects: the .catch callback runs.
SpawnRejects ==
  /\ phase = "spawning"
  /\ phase' = "spawnFailed"
  /\ \E err \in ErrorCodes : Reject(RejSpawn(err))
  /\ UNCHANGED <<env, tag, lockedStreams, argv, hook, registry, run, logger, chan, log, invs, traceId, filePath, testMode, pmOptions, handlers, pmClosed, handled, lastRpc>>
  /\ UNCHANGED procVars
  /\ UNCHANGED dataVars
  /\ UNCHANGED eventVars
  /\ UNCHANGED chanVars

\* Variant: the stream handlers are left out of the registration.
RegisterHandlers_BaseOnly ==
  /\ phase = "spawned"
  /\ phase' = "running"
  /\ handlers' = BaseMethods
  /\ UNCHANGED <<env, tag, lockedStreams, argv, hook, registry, run, logger, chan, log, invs, traceId, filePath, testMode, pmOptions, pmClosed, promise, handled, lastRpc>>
  /\ UNCHANGED procVars
  /\ UNCHANGED dataVars
  /\ UNCHANGED eventVars
  /\ UNCHANGED chanVars

\* Variant: the stream handlers are registered for the streams LockedData
\* holds when the .then callback runs.
RegisterHandlers_LiveStreams ==
  /\ phase = "spawned"
  /\ phase' = "running"
  /\ handlers' = BaseMethods \cup StreamMethods(lockedStreams)
  /\ UNCHANGED <<env, tag, lockedStreams, argv, hook, registry, run, logger, chan, log, invs, traceId, filePath, testMode, pmOptions, pmClosed, promise, handled, lastRpc>>
  /\ UNCHANGED procVars
  /\ UNCHANGED dataVars
  /\ UNCHANGED eventVars
  /\ UNCHANGED chanVars

\* The .then callback runs to its end: every handler and every lifecycle
\* callback is registered.
RegisterHandlers ==
  /\ phase = "spawned"
  /\ phase' = "running"
  /\ handlers' = AllMethods
  /\ UNCHANGED <<env, tag, lockedStreams, argv, hook, registry, run, logger, chan, log, invs, traceId, filePath, testMode, pmOptions, pmClosed, promise, handled, lastRpc>>
  /\ UNCHANGED procVars
  /\ UNCHANGED dataVars
  /\ UNCHANGED eventVars
  /\ UNCHANGED chanVars

\* The .then callback throws at streamFactory() of the i-th stream: the
\* handlers registered before it stay, the lifecycle callbacks are never
\* registered, and the .catch callback rejects.
RegisterThrows ==
  /\ phase = "spawned"
  /\ \E i \in 1..Len(streamConfig) :
       handlers' = BaseMethods \cup StreamMethods({streamConfig[j] : j \in 1..(i - 1)})
  /\ phase' = "regFailed"
  /\ Reject(RejSpawn("Error"))
  /\ UNCHANGED <<env, tag, lockedStreams, argv, hook, registry, run, logger, chan, log, invs, traceId, filePath, testMode, pmOptions, pmClosed, handled, lastRpc>>
  /\ UNCHANGED procVars
  /\ UNCHANGED dataVars
  /\ UNCHANGED eventVars
  /\ UNCHANGED chanVars

\* ProcessManager.close(): tear down the handler registrations and release
\* the supervisor.
PmClose ==
  /\ pmClosed' = TRUE
  /\ handlers' = {}

\* The worker process ends by itself (process.exit(0) / process.exit(1) in
\* the runner) or is terminated by a signal from outside.
ProcessExits ==
  /\ proc = "running"
  /\ proc' = "exited"
  /\ exitCode' \in ExitCodes \cup {NullCode}
  /\ UNCHANGED <<env, tag, lockedStreams, argv, hook, registry, run, logger, chan, log, invs, traceId, filePath, testMode, pmOptions, phase, handlers, pmClosed, promise, handled, lastRpc>>
  /\ UNCHANGED dataVars
  /\ UNCHANGED eventVars
  /\ UNCHANGED chanVars

\* Variant: a stored result wins over the exit code.
OnCloseSettle_ResultWins(code) ==
  IF code # <<0>> /\ code # NullCode /\ result = Undefined
    THEN Reject(RejExit(code))
    ELSE Resolve(result)

\* The settlement made by the close callback (lines 141-146).
OnCloseSettle(code) ==
  IF code # <<0>> /\ code # NullCode
    THEN Reject(RejExit(code))
    ELSE Resolve(result)

\* Variant: a worker that ended with a failure code is spawned again.
OnProcessClose_Retries ==
  /\ phase = "running"
  /\ ~closeDelivered
  /\ proc \in {"exited", "absent"}
  /\ proc = "absent" => errorDelivered
  /\ LET code == IF proc = "absent" THEN SpawnFailureCode ELSE exitCode IN
       IF code # <<0>> /\ code # NullCode
         THEN /\ phase' = "spawning"
              /\ proc' = "none"
              /\ UNCHANGED <<closeDelivered, closeCode, pmClosed, handlers, promise>>
         ELSE /\ closeDelivered' = TRUE
              /\ closeCode' = code
              /\ PmClose
              /\ OnCloseSettle(code)
              /\ UNCHANGED <<phase, proc>>
  /\ UNCHANGED <<env, tag, lockedStreams, argv, hook, registry, run, logger, chan, log, invs, traceId, filePath, testMode, pmOptions, handled, lastRpc>>
  /\ UNCHANGED <<errorDelivered, errorCode, exitCode>>
  /\ UNCHANGED dataVars
  /\ UNCHANGED chanVars

\* processManager.onProcessClose callback (lines 139-147).  A child that
\* failed to start reports its error before it closes.
OnProcessClose ==
  /\ phase = "running"
  /\ ~closeDelivered
  /\ proc \in {"exited", "absent"}
  /\ proc = "absent" => errorDelivered
  /\ LET code == IF proc = "absent" THEN SpawnFailureCode ELSE exitCode IN
       /\ closeDelivered' = TRUE
       /\ closeCode' = code
       /\ PmClose
       /\ OnCloseSettle(code)
  /\ UNCHANGED <<env, tag, lockedStreams, argv, hook, registry, run, logger, chan, log, invs, traceId, filePath, testMode, pmOptions, phase, handled, lastRpc>>
  /\ UNCHANGED <<errorDelivered, errorCode>>
  /\ UNCHANGED procVars
  /\ UNCHANGED dataVars
  /\ UNCHANGED chanVars

\* Variant: the error callback does not single out ENOENT.
OnProcessError_Generic ==
  /\ phase = "running"
  /\ ~errorDelivered
  /\ \E err \in ErrorCodes :
       /\ (err = "ENOENT") <=> (proc = "absent")
       /\ errorCode' = err
       /\ PmClose
       /\ Reject(RejError(err))
  /\ errorDelivered' = TRUE
  /\ UNCHANGED <<env, tag, lockedStreams, argv, hook, registry, run, logger, chan, log, invs, traceId, filePath, testMode, pmOptions, phase, handled, lastRpc, closeDelivered, closeCode>>
  /\ UNCHANGED procVars
  /\ UNCHANGED dataVars
  /\ UNCHANGED chanVars

\* processManager.onProcessError callback (lines 150-163).  ENOENT is the
\* error of a missing executable; any other error belongs to a child that
\* was started.
OnProcessError ==
  /\ phase = "running"
  /\ ~errorDelivered
  /\ \E err \in ErrorCodes :
       /\ (err = "ENOENT") <=> (proc = "absent")
       /\ errorCode' = err
       /\ PmClose
       /\ IF err = "ENOENT"
            THEN Reject(RejNotFound(command))
            ELSE Reject(RejError(err))
  /\ errorDelivered' = TRUE
  /\ UNCHANGED <<env, tag, lockedStreams, argv, hook, registry, run, logger, chan, log, invs, traceId, filePath, testMode, pmOptions, phase, handled, lastRpc, closeDelivered, closeCode>>
  /\ UNCHANGED procVars
  /\ UNCHANGED dataVars
  /\ UNCHANGED chanVars

\* ---------------------------------------------------- RPC dispatch (C1)
\* The supervisor serves a request of a live worker with the handler
\* registered for its method; the response goes back to the worker.  The
\* buffered frames are served first, in their order of arrival.
Serve(method, input, resp, group) ==
  /\ proc = "running"
  /\ method \in handlers
  /\ handled < MaxRequests
  /\ buffer # <<>> => Head(buffer) = [method |-> method, params |-> input]
  /\ buffer' = IF buffer = <<>> THEN buffer ELSE Tail(buffer)
  /\ handled' = handled + 1
  /\ lastRpc' = [method |-> method, params |-> input, resp |-> resp, group |-> group,
                 settled |-> promise.state # "pending", afterResult |-> delivered # Undefined,
                 early |-> buffer # <<>>]

Frame == <<env, tag, lockedStreams, argv, hook, registry, run, logger, chan, log, invs, traceId, filePath, testMode, pmOptions, phase, pmClosed, promise, violation>>

\* handler('close'): processManager.kill() terminates the child by signal.
CloseHandler ==
  /\ proc' = "exited"
  /\ exitCode' = NullCode

HandleClose ==
  /\ Serve("close", NoParams, Undefined, {})
  /\ CloseHandler
  /\ UNCHANGED Frame
  /\ UNCHANGED handlers
  /\ UNCHANGED dataVars
  /\ UNCHANGED eventVars

\* handler('log'): logger.log(input).
HandleLog ==
  /\ Serve("log", [NoParams EXCEPT !.data = "entry"], Undefined, {})
  /\ UNCHANGED Frame
  /\ UNCHANGED handlers
  /\ UNCHANGED procVars
  /\ UNCHANGED dataVars
  /\ UNCHANGED eventVars

\* handler('state.get'): state.get(input.traceId, input.key).
\* Variant: the handler reads under the invocation's own trace.
StateGetHandler_ParentTrace(input) == StoreGet(store, traceId, input.key)

\* handler('state.get'): state.get(input.traceId, input.key).
StateGetHandler(input) == StoreGet(store, input.traceId, input.key)

HandleStateGet ==
  /\ \E t \in TraceIds, k \in Keys :
       LET input == [NoParams EXCEPT !.traceId = t, !.key = k] IN
         Serve("state.get", input, StateGetHandler(input), {})
  /\ UNCHANGED Frame
  /\ UNCHANGED handlers
  /\ UNCHANGED procVars
  /\ UNCHANGED dataVars
  /\ UNCHANGED eventVars

\* Variant: the handler writes under the invocation's own trace.
StateSetHandler_ParentTrace(input) == StoreSet(store, traceId, input.key, input.value)

\* handler('state.set'): state.set(input.traceId, input.key, input.value).
StateSetHandler(input) == StoreSet(store, input.traceId, input.key, input.value)

HandleStateSet ==
  /\ \E t \in TraceIds, k \in Keys, v \in Values :
       LET input == [NoParams EXCEPT !.traceId = t, !.key = k, !.value = v] IN
         /\ Serve("state.set", input, Undefined, {})
         /\ store' = StateSetHandler(input)
  /\ UNCHANGED Frame
  /\ UNCHANGED handlers
  /\ UNCHANGED procVars
  /\ UNCHANGED <<streamItems, emitted, warnings, result, delivered>>
  /\ UNCHANGED eventVars

\* handler('state.delete'): state.delete(input.traceId, input.key).
\* Variant: the handler does not reach the store.
StateDeleteHandler_NoOp(input) == store

StateDeleteHandler(input) == StoreDelete(store, input.traceId, input.key)

HandleStateDelete ==
  /\ \E t \in TraceIds, k \in Keys :
       LET input == [NoParams EXCEPT !.traceId = t, !.key = k] IN
         /\ Serve("state.delete", input, Undefined, {})
         /\ store' = StateDeleteHandler(input)
  /\ UNCHANGED Frame
  /\ UNCHANGED handlers
  /\ UNCHANGED procVars
  /\ UNCHANGED <<streamItems, emitted, warnings, result, delivered>>
  /\ UNCHANGED eventVars

\* handler('state.clear'): state.clear(input.traceId).
\* Variant: the handler clears the keys of every trace.
StateClearHandler_AllTraces(input) == [x \in DOMAIN store |-> Null]

StateClearHandler(input) == StoreClear(store, input.traceId)

HandleStateClear ==
  /\ \E t \in TraceIds :
       LET input == [NoParams EXCEPT !.traceId = t] IN
         /\ Serve("state.clear", input, Undefined, {})
         /\ store' = StateClearHandler(input)
  /\ UNCHANGED Frame
  /\ UNCHANGED handlers
  /\ UNCHANGED procVars
  /\ UNCHANGED <<streamItems, emitted, warnings, result, delivered>>
  /\ UNCHANGED eventVars

\* handler('state.getGroup'): state.getGroup(input.groupId).
StateGetGroupHandler(input) == StoreGetGroup(store, input.groupId)

HandleStateGetGroup ==
  /\ \E g \in TraceIds :
       LET input == [NoParams EXCEPT !.groupId = g] IN
         Serve("state.getGroup", input, Undefined, StateGetGroupHandler(input))
  /\ UNCHANGED Frame
  /\ UNCHANGED handlers
  /\ UNCHANGED procVars
  /\ UNCHANGED dataVars
  /\ UNCHANGED eventVars

\* Variant: the handler drops the value.
ResultHandler_Dropped(input) == result

\* Variant: the first value is kept.
ResultHandler_FirstWins(input) == IF result = Undefined THEN input ELSE result

\* handler('result'): result = input.
ResultHandler(input) == input

\* Variant: the result request ends the protocol, the registrations are
\* torn down with it.
HandleResult_Terminal ==
  /\ \E v \in Values :
       /\ Serve("result", [NoParams EXCEPT !.value = v], Undefined, {})
       /\ result' = ResultHandler(v)
       /\ delivered' = v
  /\ handlers' = {}
  /\ UNCHANGED Frame
  /\ UNCHANGED procVars
  /\ UNCHANGED <<store, streamItems, emitted, warnings>>
  /\ UNCHANGED eventVars

HandleResult ==
  /\ \E v \in Values :
       /\ Serve("result", [NoParams EXCEPT !.value = v], Undefined, {})
       /\ result' = ResultHandler(v)
       /\ delivered' = v
  /\ UNCHANGED Frame
  /\ UNCHANGED handlers
  /\ UNCHANGED procVars
  /\ UNCHANGED <<store, streamItems, emitted, warnings>>
  /\ UNCHANGED eventVars

\* Variant: the spread comes last, { traceId, flows, logger, ...input }.
ForwardedEvent_InputWins(input) ==
  [topic |-> input.topic, data |-> input.data,
   traceId |-> IF input.traceId = Absent THEN traceId ELSE input.traceId,
   flows |-> IF input.flows = <<>> THEN step.config.flows ELSE input.flows]

\* The event handed to eventManager.emit:
\* { ...input, traceId, flows: step.config.flows, logger }.
ForwardedEvent(input) ==
  [topic |-> input.topic, data |-> input.data,
   traceId |-> traceId, flows |-> step.config.flows]

\* Variant: the handler forwards without the isAllowedToEmit check.
EmitHandler_Unchecked(input) ==
  /\ emitted' = Append(emitted, ForwardedEvent(input))
  /\ warnings' = warnings

\* Variant: an authorized event is handed to the event manager twice.
EmitHandler_Twice(input) ==
  IF ~isAllowedToEmit(step, input.topic)
    THEN /\ warnings' = Append(warnings, <<step.config.name, input.topic>>)
         /\ emitted' = emitted
    ELSE /\ emitted' = emitted \o <<ForwardedEvent(input), ForwardedEvent(input)>>
         /\ warnings' = warnings

\* handler('emit') (lines 101-107).
EmitHandler(input) ==
  IF ~isAllowedToEmit(step, input.topic)
    THEN /\ warnings' = Append(warnings, <<step.config.name, input.topic>>)
         /\ emitted' = emitted
    ELSE /\ emitted' = Append(emitted, ForwardedEvent(input))
         /\ warnings' = warnings

\* Variant: the handler throws on an undeclared topic, the worker gets an
\* error response.
EmitResponse_ThrowsOnInvalid(input) ==
  IF ~isAllowedToEmit(step, input.topic) THEN RpcError ELSE Undefined

\* What the emit handler returns to the worker: the value of
\* printer.printInvalidEmit or of eventManager.emit, no error in both.
EmitResponse(input) ==
  IF ~isAllowedToEmit(step, input.topic) THEN Undefined ELSE Undefined

HandleEmit ==
  /\ \E topic \in Topics, t \in TraceIds \cup {Absent}, f \in {<<>>, <<"forged">>} :
       LET input == [NoParams EXCEPT !.topic = topic, !.data = "d1",
                                     !.traceId = t, !.flows = f] IN
         /\ Serve("emit", input, EmitResponse(input), {})
         /\ EmitHandler(input)
  /\ UNCHANGED Frame
  /\ UNCHANGED handlers
  /\ UNCHANGED procVars
  /\ UNCHANGED <<store, streamItems, result, delivered>>
  /\ UNCHANGED eventVars

\* handlers streams.<name>.get / set / delete / getGroup (lines 109-124).
HandleStreamGet ==
  /\ \E n \in Range(streamConfig), g \in GroupIds, i \in ItemIds :
       Serve(StreamMethod(n, "get"), [NoParams EXCEPT !.groupId = g, !.id = i],
             StreamGet(streamItems, g, i), {})
  /\ UNCHANGED Frame
  /\ UNCHANGED handlers
  /\ UNCHANGED procVars
  /\ UNCHANGED dataVars
  /\ UNCHANGED eventVars

HandleStreamSet ==
  /\ \E n \in Range(streamConfig), g \in GroupIds, i \in ItemIds :
       /\ Serve(StreamMethod(n, "set"),
                [NoParams EXCEPT !.groupId = g, !.id = i, !.data = "d1"], "d1", {})
       /\ streamItems' = StreamSet(streamItems, g, i, "d1")
  /\ UNCHANGED Frame
  /\ UNCHANGED handlers
  /\ UNCHANGED procVars
  /\ UNCHANGED <<store, emitted, warnings, result, delivered>>
  /\ UNCHANGED eventVars

HandleStreamDelete ==
  /\ \E n \in Range(streamConfig), g \in GroupIds, i \in ItemIds :
       /\ Serve(StreamMethod(n, "delete"), [NoParams EXCEPT !.groupId = g, !.id = i],
                Undefined, {})
       /\ streamItems' = StreamDelete(streamItems, g, i)
  /\ UNCHANGED Frame
  /\ UNCHANGED handlers
  /\ UNCHANGED procVars
  /\ UNCHANGED <<store, emitted, warnings, result, delivered>>
  /\ UNCHANGED eventVars

HandleStreamGetGroup ==
  /\ \E n \in Range(streamConfig), g \in GroupIds :
       Serve(StreamMethod(n, "getGroup"), [NoParams EXCEPT !.groupId = g],
             Undefined, StreamGetGroup(streamItems, g))
  /\ UNCHANGED Frame
  /\ UNCHANGED handlers
  /\ UNCHANGED procVars
  /\ UNCHANGED dataVars
  /\ UNCHANGED eventVars

\* -------------------------------------------- frames outside the handlers
\* The requests a worker may send before the .then callback has run.
EarlyFrames ==
  {[method |-> "emit",
    params |-> [NoParams EXCEPT !.topic = "b", !.data = "d1", !.traceId = Absent]],
   [method |-> "result", params |-> [NoParams EXCEPT !.value = "v1"]],
   [method |-> StreamMethod(streamConfig[1], "get"),
    params |-> [NoParams EXCEPT !.groupId = "g1", !.id = "i1"]]}

\* A frame arrives between spawn() and the registration of the handlers:
\* the supervisor buffers it.
EarlyRequest ==
  /\ phase = "spawned"
  /\ proc = "running"
  /\ Len(buffer) < MaxBuffered
  /\ \E f \in EarlyFrames : buffer' = Append(buffer, f)
  /\ UNCHANGED <<env, tag, lockedStreams, argv, hook, registry, run, logger, chan, log, invs, traceId, filePath, testMode, pmOptions, phase, handlers, pmClosed, promise,
                 handled, lastRpc, violation>>
  /\ UNCHANGED procVars
  /\ UNCHANGED dataVars
  /\ UNCHANGED eventVars

\* A request for a method without a registered handler, once the
\* registration has run: a protocol violation.  The supervisor closes the
\* channel and kills the worker.
HandleUnknown ==
  /\ phase \in {"running", "regFailed"}
  /\ proc = "running"
  /\ ~pmClosed
  /\ violation = ""
  /\ \E m \in WorkerMethods \ handlers :
       /\ buffer # <<>> => Head(buffer).method = m
       /\ violation' = m
  /\ buffer' = <<>>
  /\ handlers' = {}
  /\ proc' = "exited"
  /\ exitCode' = NullCode
  /\ UNCHANGED <<env, tag, lockedStreams, argv, hook, registry, run, logger, chan, log, invs, traceId, filePath, testMode, pmOptions, phase, pmClosed, promise, handled, lastRpc>>
  /\ UNCHANGED dataVars
  /\ UNCHANGED eventVars

\* ------------------------------------------------------- specification
Next ==
  \/ ExecutorRuns
  \/ EarlyRequest
  \/ HandleUnknown
  \/ SpawnResolves
  \/ SpawnRejects
  \/ RegisterHandlers
  \/ RegisterThrows
  \/ ProcessExits
  \/ OnProcessClose
  \/ OnProcessError
  \/ HandleClose
  \/ HandleLog
  \/ HandleStateGet
  \/ HandleStateSet
  \/ HandleStateDelete
  \/ HandleStateClear
  \/ HandleStateGetGroup
  \/ HandleResult
  \/ HandleEmit
  \/ HandleStreamGet
  \/ HandleStreamSet
  \/ HandleStreamDelete
  \/ HandleStreamGetGroup

Spec == Init /\ [][Next]_vars

\* Runner selection alone: the executor applied to every path of Paths,
\* with and without test mode.
InitRunner ==
  /\ InitCall
  /\ filePath \in Paths
  /\ testMode \in BOOLEAN
  /\ invs = <<>>

NextRunner == ExecutorRuns

SpecRunner == InitRunner /\ [][NextRunner]_vars

\* ------------------------------------------------- a flow of invocations
\* The steps of a flow in the order of their registration: S1 subscribes
\* to a and emits b, S2 and S3 subscribe to b, S2 emits c, S4 subscribes
\* to c.  The subscription graph is acyclic.
FlowStepNames == <<"S1", "S2", "S3", "S4">>
FlowStep(n) ==
  [filePath |-> <<"s">> \o DotTs,
   config |->
     [type |-> "event", name |-> n,
      emits |-> CASE n = "S1" -> <<[topic |-> "b", label |-> Absent]>>
                  [] n = "S2" -> <<[topic |-> "c", label |-> Absent]>>
                  [] OTHER -> <<>>,
      subscribes |-> CASE n = "S1" -> {"a"}
                       [] n \in {"S2", "S3"} -> {"b"}
                       [] OTHER -> {"c"},
      flows |-> <<"f1">>]]

\* The requests the handler of a step makes, in order; S3 emits a topic it
\* has not declared.
NoFlowRpc == [method |-> "none", topic |-> Absent]
EmitRpc(topic) == [method |-> "emit", topic |-> topic]
StateRpc == [method |-> "state.set", topic |-> Absent]
Script(n) ==
  CASE n = "S1" -> <<StateRpc, EmitRpc("b")>>
    [] n = "S2" -> <<StateRpc, EmitRpc("c")>>
    [] n = "S3" -> <<EmitRpc("c")>>
    [] OTHER -> <<StateRpc>>

\* The steps subscribed to a topic, in the order of their registration.
Subscribers(topic) ==
  SelectSeq(FlowStepNames, LAMBDA n : topic \in FlowStep(n).config.subscribes)

\* An invocation the event manager has scheduled.
NewInvocation(n) ==
  [step |-> n, st |-> "scheduled", pc |-> 1, rpc |-> NoFlowRpc, code |-> NullCode,
   promise |-> Pending, errored |-> FALSE, closeDone |-> FALSE, pmClosed |-> FALSE]

\* eventManager.emit: one invocation is scheduled for every subscriber of
\* the event's topic; the call returns once they are scheduled.
EventManagerEmit(event) ==
  [k \in 1..Len(Subscribers(event.topic)) |-> NewInvocation(Subscribers(event.topic)[k])]

\* Variant: the close callback resolves whatever the exit code.
SettleOnClose_AlwaysResolves(p, code, res) == Settle(p, "resolved", res, NoReason)

\* The settlement of the close callback (lines 141-146) on a promise.
SettleOnClose(p, code, res) ==
  IF code # <<0>> /\ code # NullCode
    THEN Settle(p, "rejected", Undefined, RejExit(code))
    ELSE Settle(p, "resolved", res, NoReason)

\* What a step of the flow leaves alone.
flowFrame ==
  <<env, tag, lockedStreams, argv, traceId, filePath, testMode, pmOptions, phase, proc, exitCode, handlers, pmClosed,
    promise, result, streamItems, handled, lastRpc, delivered, closeDelivered,
    closeCode, errorDelivered, errorCode, buffer, violation, log, chan, logger, run,
    registry, hook>>

Terminal(inv) == inv.promise.state # "pending"

InitFlow ==
  /\ InitCall
  /\ traceId = "t1"
  /\ filePath = <<"s">> \o DotTs
  /\ testMode = FALSE
  /\ invs = <<NewInvocation("S1")>>

\* The executor starts a scheduled invocation: the worker is spawned and
\* the handlers are registered.
FlowStart ==
  /\ \E i \in 1..Len(invs) :
       /\ invs[i].st = "scheduled"
       /\ invs' = [invs EXCEPT ![i].st = "running"]
  /\ UNCHANGED <<emitted, warnings, store>>
  /\ UNCHANGED flowFrame

\* The handler of a live worker makes its next request and awaits the
\* response.
FlowRequest ==
  /\ \E i \in 1..Len(invs) :
       /\ invs[i].st = "running"
       /\ invs[i].rpc = NoFlowRpc
       /\ invs[i].pc <= Len(Script(invs[i].step))
       /\ invs' = [invs EXCEPT ![i].rpc = Script(invs[i].step)[invs[i].pc]]
  /\ UNCHANGED <<emitted, warnings, store>>
  /\ UNCHANGED flowFrame

\* Variant: a forwarded emit is never answered, the worker stays in its
\* await.
FlowHandleEmit_NoResponse ==
  /\ \E i \in 1..Len(invs) :
       /\ invs[i].st = "running"
       /\ ~invs[i].pmClosed
       /\ invs[i].rpc.method = "emit"
       /\ LET s == FlowStep(invs[i].step)
              input == [NoParams EXCEPT !.topic = invs[i].rpc.topic, !.data = "d1"]
              answered == [invs EXCEPT ![i].rpc = NoFlowRpc, ![i].pc = @ + 1]
          IN  IF ~isAllowedToEmit(s, input.topic)
                THEN /\ warnings' = Append(warnings, <<s.config.name, input.topic>>)
                     /\ emitted' = emitted
                     /\ invs' = answered
                ELSE /\ emitted' = Append(emitted, ForwardedEvent(input))
                     /\ warnings' = warnings
                     /\ invs' = [invs EXCEPT ![i].rpc.method = "emit (unanswered)"]
                                  \o EventManagerEmit(ForwardedEvent(input))
  /\ UNCHANGED store
  /\ UNCHANGED flowFrame

\* handler('emit') (lines 101-107) of an invocation of the flow: the
\* isAllowedToEmit check, eventManager.emit, and the response to the
\* worker.
FlowHandleEmit ==
  /\ \E i \in 1..Len(invs) :
       /\ invs[i].st = "running"
       /\ ~invs[i].pmClosed
       /\ invs[i].rpc.method = "emit"
       /\ LET s == FlowStep(invs[i].step)
              input == [NoParams EXCEPT !.topic = invs[i].rpc.topic, !.data = "d1"]
              answered == [invs EXCEPT ![i].rpc = NoFlowRpc, ![i].pc = @ + 1]
          IN  IF ~isAllowedToEmit(s, input.topic)
                THEN /\ warnings' = Append(warnings, <<s.config.name, input.topic>>)
                     /\ emitted' = emitted
                     /\ invs' = answered
                ELSE /\ emitted' = Append(emitted, ForwardedEvent(input))
                     /\ warnings' = warnings
                     /\ invs' = answered \o EventManagerEmit(ForwardedEvent(input))
  /\ UNCHANGED store
  /\ UNCHANGED flowFrame

\* handler('state.set') (lines 90-92) of an invocation of the flow.
FlowHandleState ==
  /\ \E i \in 1..Len(invs) :
       /\ invs[i].st = "running"
       /\ ~invs[i].pmClosed
       /\ invs[i].rpc.method = "state.set"
       /\ store' = StoreSet(store, traceId, "k1", "v1")
       /\ invs' = [invs EXCEPT ![i].rpc = NoFlowRpc, ![i].pc = @ + 1]
  /\ UNCHANGED <<emitted, warnings>>
  /\ UNCHANGED flowFrame

\* The handler has returned: the runner ends with process.exit(0).
FlowExit ==
  /\ \E i \in 1..Len(invs) :
       /\ invs[i].st = "running"
       /\ invs[i].rpc = NoFlowRpc
       /\ invs[i].pc > Len(Script(invs[i].step))
       /\ invs' = [invs EXCEPT ![i].st = "exited", ![i].code = <<0>>]
  /\ UNCHANGED <<emitted, warnings, store>>
  /\ UNCHANGED flowFrame

\* The worker crashes: process.exit(1), at any point of its run.
FlowCrash ==
  /\ \E i \in 1..Len(invs) :
       /\ invs[i].st = "running"
       /\ invs' = [invs EXCEPT ![i].st = "exited", ![i].code = <<1>>]
  /\ UNCHANGED <<emitted, warnings, store>>
  /\ UNCHANGED flowFrame

\* processManager.onProcessError callback (lines 150-163) of an
\* invocation whose worker was started.
FlowProcessError ==
  /\ \E i \in 1..Len(invs) :
       /\ invs[i].st \in {"running", "exited"}
       /\ ~invs[i].errored
       /\ ~invs[i].closeDone
       /\ invs' = [invs EXCEPT ![i].errored = TRUE, ![i].pmClosed = TRUE,
                               ![i].promise = Settle(@, "rejected", Undefined, RejError("EPIPE"))]
  /\ UNCHANGED <<emitted, warnings, store>>
  /\ UNCHANGED flowFrame

\* processManager.onProcessClose callback (lines 139-147) of an invocation.
FlowClose ==
  /\ \E i \in 1..Len(invs) :
       /\ invs[i].st = "exited"
       /\ ~invs[i].closeDone
       /\ invs' = [invs EXCEPT ![i].closeDone = TRUE, ![i].pmClosed = TRUE,
                               ![i].promise = SettleOnClose(@, invs[i].code, Undefined)]
  /\ UNCHANGED <<emitted, warnings, store>>
  /\ UNCHANGED flowFrame

\* The steps the event loop and a worker that does not crash take.
FlowProgress ==
  \/ FlowStart
  \/ FlowRequest
  \/ FlowHandleEmit
  \/ FlowHandleState
  \/ FlowExit
  \/ FlowClose

NextFlow ==
  \/ FlowStart
  \/ FlowRequest
  \/ FlowHandleEmit
  \/ FlowHandleState
  \/ FlowExit
  \/ FlowClose
  \/ FlowCrash
  \/ FlowProcessError

\* The event loop runs every callback that is ready, and a worker that
\* does not crash runs its handler on; crashes and process errors may or
\* may not happen.
SpecFlow == InitFlow /\ [][NextFlow]_vars /\ WF_vars(FlowProgress)

\* ------------------------------------------------- the state API alone
\* The state.* handlers of running invocations, serving the requests of
\* any number of workers one at a time; every served request is logged
\* with its response and the store it left.
storeFrame ==
  <<env, tag, lockedStreams, argv, traceId, filePath, testMode, pmOptions, phase, proc, exitCode, handlers, pmClosed,
    promise, result, streamItems, handled, lastRpc, delivered, closeDelivered,
    closeCode, errorDelivered, errorCode, buffer, violation, emitted, warnings, invs,
    chan, logger, run, registry, hook>>

LogEntry(method, input, resp, group, after) ==
  [method |-> method, params |-> input, resp |-> resp, group |-> group, after |-> after]

InitStore ==
  /\ InitCall
  /\ traceId = "t1"
  /\ filePath = <<"s">> \o DotTs
  /\ testMode = FALSE
  /\ invs = <<>>

StoreServesGet ==
  /\ Len(log) < MaxOps
  /\ \E t \in TraceIds, k \in Keys :
       LET input == [NoParams EXCEPT !.traceId = t, !.key = k] IN
         log' = Append(log, LogEntry("state.get", input, StateGetHandler(input), {}, store))
  /\ store' = store
  /\ UNCHANGED storeFrame

StoreServesSet ==
  /\ Len(log) < MaxOps
  /\ \E t \in TraceIds, k \in Keys, v \in Values :
       LET input == [NoParams EXCEPT !.traceId = t, !.key = k, !.value = v] IN
         /\ store' = StateSetHandler(input)
         /\ log' = Append(log, LogEntry("state.set", input, Undefined, {}, store'))
  /\ UNCHANGED storeFrame

StoreServesDelete ==
  /\ Len(log) < MaxOps
  /\ \E t \in TraceIds, k \in Keys :
       LET input == [NoParams EXCEPT !.traceId = t, !.key = k] IN
         /\ store' = StateDeleteHandler(input)
         /\ log' = Append(log, LogEntry("state.delete", input, Undefined, {}, store'))
  /\ UNCHANGED storeFrame

StoreServesClear ==
  /\ Len(log) < MaxOps
  /\ \E t \in TraceIds :
       LET input == [NoParams EXCEPT !.traceId = t] IN
         /\ store' = StateClearHandler(input)
         /\ log' = Append(log, LogEntry("state.clear", input, Undefined, {}, store'))
  /\ UNCHANGED storeFrame

StoreServesGetGroup ==
  /\ Len(log) < MaxOps
  /\ \E g \in TraceIds :
       LET input == [NoParams EXCEPT !.groupId = g] IN
         log' = Append(log, LogEntry("state.getGroup", input, Undefined,
                                     StateGetGroupHandler(input), store))
  /\ store' = store
  /\ UNCHANGED storeFrame

NextStore ==
  \/ StoreServesGet
  \/ StoreServesSet
  \/ StoreServesDelete
  \/ StoreServesClear
  \/ StoreServesGetGroup

SpecStore == InitStore /\ [][NextStore]_vars

\* ------------------------------------------- the RPC channel of a worker
\* One worker whose handler makes calls through the runner's sender; a
\* call the handler awaits suspends it until the response has come.  The
\* parent takes the frames from the pipe in their order, one handler call
\* at a time, and responds when the promise the handler returned has
\* resolved.
chanFrame ==
  <<env, tag, lockedStreams, argv, traceId, filePath, testMode, pmOptions, phase, proc, exitCode, handlers, pmClosed,
    promise, result, streamItems, handled, lastRpc, delivered, closeDelivered,
    closeCode, errorDelivered, errorCode, buffer, violation, invs, log, logger, run,
    registry, hook>>

\* The calls a handler chooses from.
ChanCalls ==
  {[method |-> "emit", params |-> [NoParams EXCEPT !.topic = "b", !.data = "d1"]],
   [method |-> "emit", params |-> [NoParams EXCEPT !.topic = "b", !.data = "d2"]],
   [method |-> "emit", params |-> [NoParams EXCEPT !.topic = "c", !.data = "d1"]],
   [method |-> "state.set",
    params |-> [NoParams EXCEPT !.traceId = "t1", !.key = "k1", !.value = "v1"]],
   [method |-> "state.get", params |-> [NoParams EXCEPT !.traceId = "t1", !.key = "k1"]]}

Answered(id) == \E i \in 1..Len(chan.responses) : chan.responses[i].id = id

\* The handler is suspended in an await.
Awaiting ==
  \E i \in 1..Len(chan.calls) : chan.calls[i].awaited /\ ~Answered(chan.calls[i].id)

\* Variant: the state.set handler does not return the promise of
\* state.set.
HandlerAwaits_SetDetached(method) == method \in AllMethods \ {"state.set"}

\* Every registered handler returns the promise of the call it makes
\* (lines 87-123), so the request is answered when that promise resolves.
HandlerAwaits(method) == method \in AllMethods

InitChan ==
  /\ InitCall
  /\ traceId = "t1"
  /\ filePath = <<"s">> \o DotTs
  /\ testMode = FALSE
  /\ invs = <<>>

\* The handler makes a call: sender.send writes the request to the pipe.
ChanCall ==
  /\ Len(chan.calls) < MaxCalls
  /\ Len(chan.calls) - Len(chan.responses) < MaxInFlight
  /\ ~Awaiting
  /\ \E c \in ChanCalls, aw \in BOOLEAN :
       LET f == [id |-> Len(chan.calls) + 1, method |-> c.method, params |-> c.params,
                 awaited |-> aw, answered |-> Len(chan.responses)]
       IN  chan' = [chan EXCEPT !.calls = Append(@, f), !.inbox = Append(@, f)]
  /\ UNCHANGED <<emitted, warnings, store>>
  /\ UNCHANGED chanFrame

\* Variant: the supervisor takes the newest frame of the pipe.
ChanDispatch_Lifo ==
  /\ chan.inbox # <<>>
  /\ chan.running = NoOp
  /\ LET f == chan.inbox[Len(chan.inbox)] IN
       /\ IF f.method = "emit"
            THEN EmitHandler(f.params)
            ELSE UNCHANGED <<emitted, warnings>>
       /\ chan' = [chan EXCEPT
                     !.inbox = SubSeq(@, 1, Len(@) - 1),
                     !.running = [frame |-> f, landed |-> FALSE,
                                  resp |-> IF f.method = "state.get"
                                             THEN StateGetHandler(f.params)
                                             ELSE Undefined]]
  /\ store' = store
  /\ UNCHANGED chanFrame

\* The supervisor takes the oldest frame of the pipe and calls its
\* handler: the emit handler checks the topic and calls eventManager.emit,
\* the state.get handler reads, the state.set handler starts the write.
ChanDispatch ==
  /\ chan.inbox # <<>>
  /\ chan.running = NoOp
  /\ LET f == Head(chan.inbox) IN
       /\ IF f.method = "emit"
            THEN EmitHandler(f.params)
            ELSE UNCHANGED <<emitted, warnings>>
       /\ chan' = [chan EXCEPT
                     !.inbox = Tail(@),
                     !.running = [frame |-> f, landed |-> FALSE,
                                  resp |-> IF f.method = "state.get"
                                             THEN StateGetHandler(f.params)
                                             ELSE Undefined]]
  /\ store' = store
  /\ UNCHANGED chanFrame

\* The promise of a handler's call resolves: eventManager.emit has
\* returned, the write of state.set has reached the store.
ChanLand ==
  /\ \E op \in ({chan.running} \ {NoOp}) \cup chan.background :
       /\ ~op.landed
       /\ store' = IF op.frame.method = "state.set"
                     THEN StateSetHandler(op.frame.params)
                     ELSE store
       /\ chan' = IF op = chan.running
                    THEN [chan EXCEPT !.running.landed = TRUE]
                    ELSE [chan EXCEPT !.background = @ \ {op}]
  /\ UNCHANGED <<emitted, warnings>>
  /\ UNCHANGED chanFrame

\* The supervisor answers the request once the handler's promise has
\* resolved; what the handler started without returning it goes on in the
\* background.
ChanRespond ==
  /\ chan.running # NoOp
  /\ HandlerAwaits(chan.running.frame.method) => chan.running.landed
  /\ chan' = [chan EXCEPT
                !.responses = Append(@, [id |-> chan.running.frame.id,
                                         resp |-> chan.running.resp,
                                         landed |-> chan.running.landed]),
                !.background = IF chan.running.landed THEN @ ELSE @ \cup {chan.running},
                !.running = NoOp]
  /\ UNCHANGED <<emitted, warnings, store>>
  /\ UNCHANGED chanFrame

NextChan ==
  \/ ChanCall
  \/ ChanDispatch
  \/ ChanLand
  \/ ChanRespond

SpecChan == InitChan /\ [][NextChan]_vars

\* ------------------------------------------- one run of the Node runner
\* runTypescriptModule (node-runner.ts lines 26-79) under callStepFile:
\* the handler writes to stdout and stderr, then returns or throws; the
\* parent logs what arrives on the pipes and settles on the close event.
runFrame ==
  <<env, tag, lockedStreams, argv, traceId, filePath, testMode, streamItems, handled, lastRpc, delivered,
    errorDelivered, errorCode, buffer, violation, emitted, warnings, store, invs, log,
    chan, registry, hook>>

\* Chunks of output, as sequences of characters.
Chunks ==
  {<<"{", "}", "\n">>, <<"{">>, <<"h", "i", "\n">>, <<"4", "2">>,
   <<"{", "}", "\n", "{", "}", "\n">>}
\* The messages of the errors a handler throws.
HandlerErrors == {"boom"}
\* The errors that reach the catch block of the runner from the handler,
\* a middleware or a request the handler awaited.
RunnerErrors == HandlerErrors \cup {"middleware", "rpc"}
NoHandlerError == "Function handler not found in module"
\* console.error('Error running TypeScript module:', error) on stderr.
ErrorChunk(e) ==
  IF e = "boom" THEN <<"E", "r", "r", ":", " ", "b", "o", "o", "m", "\n">>
  ELSE <<"E", "r", "r", ":", " ", "e", "\n">>

IsWs(c) == c \in {" ", "\n"}
RECURSIVE TrimLeft(_)
TrimLeft(str) ==
  IF str # <<>> /\ IsWs(Head(str)) THEN TrimLeft(Tail(str)) ELSE str
RECURSIVE TrimRight(_)
TrimRight(str) ==
  IF str # <<>> /\ IsWs(str[Len(str)]) THEN TrimRight(SubSeq(str, 1, Len(str) - 1)) ELSE str
Digits == {"0", "1", "2", "3", "4", "5", "6", "7", "8", "9"}

\* JSON.parse on the JSON texts the chunks can hold: an empty object, an
\* empty array, an integer, null, with whitespace around them; anything
\* else is a SyntaxError.
IsJsonValue(t) ==
  \/ /\ Len(t) >= 2
     /\ <<t[1], t[Len(t)]>> \in {<<"{", "}">>, <<"[", "]">>}
     /\ \A i \in 2..(Len(t) - 1) : IsWs(t[i])
  \/ /\ t # <<>>
     /\ \A i \in 1..Len(t) : t[i] \in Digits
     /\ Len(t) > 1 => t[1] # "0"
  \/ t = <<"n", "u", "l", "l">>
JsonParse(data) ==
  LET t == TrimRight(TrimLeft(data)) IN
    [ok |-> IsJsonValue(t),
     value |-> IF IsJsonValue(t) THEN SelectSeq(t, LAMBDA c : ~IsWs(c)) ELSE <<>>]

\* processManager.onStdout callback (lines 126-133).
OnStdout(data) ==
  IF JsonParse(data).ok
    THEN [level |-> "log", message |-> JsonParse(data).value, text |-> <<>>]
    ELSE [level |-> "info", message |-> <<>>, text |-> data]

\* Variant: stderr goes through the JSON classifier of stdout.
OnStderr_Classified(data) == OnStdout(data)

\* processManager.onStderr callback (line 136).
OnStderr(data) == [level |-> "error", message |-> <<>>, text |-> data]

InitRun ==
  /\ InitCall
  /\ traceId = "t1"
  /\ filePath = <<"s">> \o DotTs
  /\ testMode = FALSE
  /\ invs = <<>>

\* callStepFile up to the end of the .then callback: the runner is
\* spawned, the handlers and the callbacks are registered.
RunStart ==
  /\ phase = "called"
  /\ phase' = "running"
  /\ pmOptions' = getLanguageBasedRunner(step.filePath)
  /\ proc' = "running"
  /\ handlers' = AllMethods
  /\ run' = [run EXCEPT !.pc = "require"]
  /\ UNCHANGED <<exitCode, pmClosed, promise, result, closeDelivered, closeCode, logger>>
  /\ UNCHANGED runFrame

\* The runner loads the step module (lines 29-34): the handler is there,
\* or the runner throws into its catch block (lines 75-78).
RunRequire ==
  /\ run.pc = "require"
  /\ \/ /\ run' = [run EXCEPT !.pc = "handler"]
        /\ UNCHANGED <<proc, exitCode>>
     \/ /\ run' = [run EXCEPT !.pc = "exited", !.error = NoHandlerError,
                              !.pipe = Append(@, [stream |-> "stderr",
                                                  chunk |-> ErrorChunk(NoHandlerError)])]
        /\ proc' = "exited"
        /\ exitCode' = <<1>>
  /\ UNCHANGED <<phase, pmOptions, handlers, pmClosed, promise, result, closeDelivered,
                 closeCode, logger>>
  /\ UNCHANGED runFrame

\* The handler, or the runtime under it, writes a chunk to stdout or
\* stderr.
RunWrites ==
  /\ run.pc = "handler"
  /\ Len(run.pipe) + Len(run.seen) < MaxChunks
  /\ \E st \in {"stdout", "stderr"}, c \in Chunks :
       run' = [run EXCEPT !.pipe = Append(@, [stream |-> st, chunk |-> c])]
  /\ UNCHANGED <<phase, pmOptions, proc, handlers, exitCode, pmClosed, promise, result,
                 closeDelivered, closeCode, logger>>
  /\ UNCHANGED runFrame

\* The handler returns through the middleware chain (line 69).
RunReturns ==
  /\ run.pc = "handler"
  /\ \E v \in Values : run' = [run EXCEPT !.pc = "returned", !.value = v]
  /\ UNCHANGED <<phase, pmOptions, proc, handlers, exitCode, pmClosed, promise, result,
                 closeDelivered, closeCode, logger>>
  /\ UNCHANGED runFrame

\* sender.send('result', result) (line 71): the request reaches the
\* parent, whose result handler stores the value (line 99).
RunSendsResult ==
  /\ run.pc = "returned"
  /\ "result" \in handlers
  /\ result' = ResultHandler(run.value)
  /\ run' = [run EXCEPT !.pc = "sent", !.resultSent = TRUE]
  /\ UNCHANGED <<phase, pmOptions, proc, handlers, exitCode, pmClosed, promise,
                 closeDelivered, closeCode, logger>>
  /\ UNCHANGED runFrame

\* The response of the parent settles the promise of sender.send.
RunResultAnswered ==
  /\ run.pc = "sent"
  /\ run' = [run EXCEPT !.pc = "answered", !.resultAnswered = TRUE]
  /\ UNCHANGED <<phase, pmOptions, proc, handlers, exitCode, pmClosed, promise, result,
                 closeDelivered, closeCode, logger>>
  /\ UNCHANGED runFrame

\* Variant: the runner does not await the result request.
RunExits_Unawaited ==
  /\ run.pc \in {"sent", "answered"}
  /\ run' = [run EXCEPT !.pc = "exited"]
  /\ proc' = "exited"
  /\ exitCode' = <<0>>
  /\ UNCHANGED <<phase, pmOptions, handlers, pmClosed, promise, result, closeDelivered,
                 closeCode, logger>>
  /\ UNCHANGED runFrame

\* await sender.close() and process.exit(0) (lines 72-74).
RunExits ==
  /\ run.pc = "answered"
  /\ run' = [run EXCEPT !.pc = "exited"]
  /\ proc' = "exited"
  /\ exitCode' = <<0>>
  /\ UNCHANGED <<phase, pmOptions, handlers, pmClosed, promise, result, closeDelivered,
                 closeCode, logger>>
  /\ UNCHANGED runFrame

\* The handler or a middleware throws, or a request the handler awaited
\* fails: console.error of the error, then process.exit(1) (lines 75-78).
RunThrows ==
  /\ run.pc = "handler"
  /\ \E e \in RunnerErrors :
       run' = [run EXCEPT !.pc = "exited", !.error = e,
                          !.pipe = Append(@, [stream |-> "stderr", chunk |-> ErrorChunk(e)])]
  /\ proc' = "exited"
  /\ exitCode' = <<1>>
  /\ UNCHANGED <<phase, pmOptions, handlers, pmClosed, promise, result, closeDelivered,
                 closeCode, logger>>
  /\ UNCHANGED runFrame

\* A chunk comes out of a pipe: the stdout or the stderr callback runs.
RunStdio ==
  /\ run.pipe # <<>>
  /\ ~pmClosed
  /\ logger' = Append(logger, IF Head(run.pipe).stream = "stdout"
                                THEN OnStdout(Head(run.pipe).chunk)
                                ELSE OnStderr(Head(run.pipe).chunk))
  /\ run' = [run EXCEPT !.pipe = Tail(@), !.seen = Append(@, Head(run.pipe))]
  /\ UNCHANGED <<phase, pmOptions, proc, handlers, exitCode, pmClosed, promise, result,
                 closeDelivered, closeCode>>
  /\ UNCHANGED runFrame

\* The close event, after the pipes have ended: the close callback
\* (lines 139-147).
RunClose ==
  /\ proc = "exited"
  /\ run.pipe = <<>>
  /\ ~closeDelivered
  /\ closeDelivered' = TRUE
  /\ closeCode' = exitCode
  /\ PmClose
  /\ OnCloseSettle(exitCode)
  /\ UNCHANGED <<phase, pmOptions, proc, exitCode, result, logger, run>>
  /\ UNCHANGED runFrame

NextRun ==
  \/ RunStart
  \/ RunRequire
  \/ RunWrites
  \/ RunReturns
  \/ RunSendsResult
  \/ RunResultAnswered
  \/ RunExits
  \/ RunThrows
  \/ RunStdio
  \/ RunClose

SpecRun == InitRun /\ [][NextRun]_vars

\* --------------------------------------------- step registry (LockedData)
\* The registry holds the loaded steps and the topic index derived from
\* them; the event manager resolves the subscribers of an emit from the
\* index that is current when emit is called.
registryFrame ==
  <<env, tag, lockedStreams, argv, traceId, filePath, testMode, pmOptions, phase, proc, exitCode, handlers, pmClosed,
    promise, result, store, streamItems, emitted, warnings, handled, lastRpc, delivered,
    closeDelivered, closeCode, errorDelivered, errorCode, buffer, violation, invs, log, chan,
    logger, run, hook>>

RegistryStepNames == {"S", "T"}
\* The parsed configs addStep can receive: a name and the topics it
\* subscribes.
RegistrySteps ==
  {[name |-> n, subscribes |-> ts] :
     n \in RegistryStepNames, ts \in (SUBSET SubscribedTopics) \ {{}}}

\* topic -> subscribers, derived from all loaded steps.
TopicIndex(steps) ==
  [t \in SubscribedTopics |-> {st.name : st \in {x \in steps : t \in x.subscribes}}]

\* One entry of the history of calls on the registry and the event manager.
RegistryCall(op, name, subscribes, topic, started) ==
  [op |-> op, name |-> name, subscribes |-> subscribes, topic |-> topic, started |-> started]

Loaded(name) == \E st \in registry.steps : st.name = name

InitRegistry ==
  /\ InitCall
  /\ traceId = "t1"
  /\ filePath = <<"s">> \o DotTs
  /\ testMode = FALSE
  /\ invs = <<>>

\* LockedData.addStep: the step joins the loaded steps and the index is
\* rebuilt.
AddStep ==
  /\ Len(registry.history) < MaxRegistryOps
  /\ \E st \in RegistrySteps :
       /\ ~Loaded(st.name)
       /\ registry' =
            [steps |-> registry.steps \cup {st},
             index |-> TopicIndex(registry.steps \cup {st}),
             history |-> Append(registry.history,
                                RegistryCall("add", st.name, st.subscribes, "", {}))]
  /\ UNCHANGED registryFrame

\* Variant: the step leaves the loaded steps but the index is kept.
RemoveStep_StaleIndex ==
  /\ Len(registry.history) < MaxRegistryOps
  /\ \E st \in registry.steps :
       registry' =
         [steps |-> registry.steps \ {st},
          index |-> registry.index,
          history |-> Append(registry.history,
                             RegistryCall("remove", st.name, st.subscribes, "", {}))]
  /\ UNCHANGED registryFrame

\* LockedData.removeStep: the step leaves the loaded steps and the index
\* is rebuilt.
RemoveStep ==
  /\ Len(registry.history) < MaxRegistryOps
  /\ \E st \in registry.steps :
       registry' =
         [steps |-> registry.steps \ {st},
          index |-> TopicIndex(registry.steps \ {st}),
          history |-> Append(registry.history,
                             RegistryCall("remove", st.name, st.subscribes, "", {}))]
  /\ UNCHANGED registryFrame

\* LockedData.updateStep: the config of a loaded step is replaced and the
\* index is rebuilt.
UpdateStep ==
  /\ Len(registry.history) < MaxRegistryOps
  /\ \E old \in registry.steps, st \in RegistrySteps :
       /\ st.name = old.name
       /\ st # old
       /\ registry' =
            [steps |-> (registry.steps \ {old}) \cup {st},
             index |-> TopicIndex((registry.steps \ {old}) \cup {st}),
             history |-> Append(registry.history,
                                RegistryCall("update", st.name, st.subscribes, "", {}))]
  /\ UNCHANGED registryFrame

\* eventManager.emit: an invocation is started for every subscriber the
\* current index holds for the topic.
RegistryEmit ==
  /\ Len(registry.history) < MaxRegistryOps
  /\ \E t \in SubscribedTopics :
       registry' =
         [registry EXCEPT
            !.history = Append(@, RegistryCall("emit", "", {}, t, registry.index[t]))]
  /\ UNCHANGED registryFrame

NextRegistry ==
  \/ AddStep
  \/ RemoveStep
  \/ UpdateStep
  \/ RegistryEmit

SpecRegistry == InitRegistry /\ [][NextRegistry]_vars

\* ------------------------------------------------- useStreamItem (React)
\* One instance of the hook (use-stream-item.ts lines 10-30): React runs
\* the effect after the first render and after every render in which
\* stream, args.streamName or args.id changed, runs the cleanup the
\* previous effect returned before that, and runs it at unmount.
hookFrame ==
  <<env, tag, lockedStreams, argv, traceId, filePath, testMode, pmOptions, phase, proc, exitCode, handlers, pmClosed,
    promise, result, store, streamItems, emitted, warnings, handled, lastRpc, delivered,
    closeDelivered, closeCode, errorDelivered, errorCode, buffer, violation, invs, log, chan,
    logger, run, registry>>

\* The values of useMotiaStream().stream and of args; an absent args, a
\* missing streamName and a missing id are the empty string.
HookStreams == {"ws1", "ws2"}
HookArgs == {[streamName |-> n, id |-> i] : n \in {"", "todos"}, i \in {"", "i1", "i2"}}

\* The dependency array of the effect (line 27).
Deps(h) == [stream |-> h.stream, streamName |-> h.args.streamName, id |-> h.args.id]

\* Variant: the cleanup resets the data and leaves the subscription open.
RunCleanup_KeepsOpen(h) ==
  IF h.cleanup = 0 THEN h ELSE [h EXCEPT !.data = Null, !.dataFrom = 0, !.cleanup = 0]

\* The cleanup the effect returned (lines 23-26), when there is one.
RunCleanup(h) ==
  IF h.cleanup = 0
    THEN h
    ELSE [h EXCEPT !.data = Null, !.dataFrom = 0, !.subs[h.cleanup].open = FALSE,
                   !.cleanup = 0]

\* The effect body (lines 16-26) on the current stream and args.
RunEffect(h) ==
  IF h.args.id = "" \/ h.args.streamName = ""
    THEN [h EXCEPT !.deps = Deps(h), !.dirty = FALSE]
    ELSE [h EXCEPT !.subs = Append(@, [stream |-> h.stream, streamName |-> h.args.streamName,
                                       id |-> h.args.id, open |-> TRUE]),
                   !.event = Len(h.subs) + 1,
                   !.cleanup = Len(h.subs) + 1,
                   !.deps = Deps(h),
                   !.dirty = FALSE]

\* return { data, event } (line 29) of a render with args a: the data
\* state as it is during that render.
Returned(a, h) ==
  [streamName |-> a.streamName, id |-> a.id, data |-> h.data, from |-> h.dataFrom]

InitHook ==
  /\ InitCall
  /\ traceId = "t1"
  /\ filePath = <<"s">> \o DotTs
  /\ testMode = FALSE
  /\ invs = <<>>

\* First render of the component that calls the hook.
HookMount ==
  /\ ~hook.mounted
  /\ ~hook.gone
  /\ \E st \in HookStreams, a \in HookArgs :
       hook' = [hook EXCEPT !.mounted = TRUE, !.stream = st, !.args = a, !.dirty = TRUE,
                            !.returned = Returned(a, hook)]
  /\ UNCHANGED hookFrame

\* A later render, with the same or with other values of stream and args;
\* the effect is due when a dependency differs from the last run.
HookRender ==
  /\ hook.mounted
  /\ ~hook.dirty
  /\ Len(hook.subs) < MaxSubs
  /\ \E st \in HookStreams, a \in HookArgs :
       hook' = [hook EXCEPT !.stream = st, !.args = a,
                            !.dirty = ([stream |-> st, streamName |-> a.streamName,
                                        id |-> a.id] # hook.deps),
                            !.returned = Returned(a, hook)]
  /\ UNCHANGED hookFrame

\* React commits the render: the previous cleanup, then the effect.
HookEffect ==
  /\ hook.mounted
  /\ hook.dirty
  /\ hook' = RunEffect(RunCleanup(hook))
  /\ UNCHANGED hookFrame

\* The change listener of the open subscription (line 20).
HookChange ==
  /\ hook.mounted
  /\ hook.cleanup # 0
  /\ hook.subs[hook.cleanup].open
  /\ \E d \in Values : hook' = [hook EXCEPT !.data = d, !.dataFrom = hook.cleanup]
  /\ UNCHANGED hookFrame

\* The component unmounts: the cleanup of the last effect runs.
HookUnmount ==
  /\ hook.mounted
  /\ hook' = [RunCleanup(hook) EXCEPT !.mounted = FALSE, !.gone = TRUE, !.dirty = FALSE]
  /\ UNCHANGED hookFrame

NextHook ==
  \/ HookMount
  \/ HookRender
  \/ HookEffect
  \/ HookChange
  \/ HookUnmount

SpecHook == InitHook /\ [][NextHook]_vars

\* ----------------------------------------- worker invocation (argv, envelope)
\* The executor serializes the envelope and builds the spawn arguments
\* (call-step-file.ts lines 67-79); the Node runner takes the step file
\* path and the envelope from process.argv (node-runner.ts lines 18-24,
\* 81-88).
argvFrame ==
  <<env, tag, lockedStreams, traceId, filePath, testMode, pmOptions, phase, proc, exitCode,
    handlers, pmClosed, promise, result, store, streamItems, emitted, warnings, handled,
    lastRpc, delivered, closeDelivered, closeCode, errorDelivered, errorCode, buffer,
    violation, invs, log, chan, logger, run, registry, hook>>

\* JavaScript values: a kind and the sequence that holds the content.
JsUndefined == [kind |-> "undefined", val |-> <<>>]
JsNull == [kind |-> "null", val |-> <<>>]
JsBool(b) == [kind |-> "boolean", val |-> <<IF b THEN "true" ELSE "false">>]
JsString(str) == [kind |-> "string", val |-> <<str>>]
JsArray(items) == [kind |-> "array", val |-> items]
JsObject(members) == [kind |-> "object", val |-> members]
Member(k, v) == [key |-> k, value |-> v]
\* obj[k]: undefined for a key the object does not hold.
JsGet(obj, k) ==
  LET hits == {i \in 1..Len(obj.val) : obj.val[i].key = k}
  IN  IF obj.kind # "object" \/ hits = {} THEN JsUndefined
      ELSE obj.val[CHOOSE i \in hits : \A j \in hits : j <= i].value

\* JSON.stringify, to a sequence of tokens: a member whose value is
\* undefined is left out, an undefined array element becomes null.
RECURSIVE JsonStringify(_)
RECURSIVE StringifyItems(_)
RECURSIVE StringifyMembers(_)
StringifyItems(items) ==
  IF items = <<>> THEN <<>>
  ELSE (IF Head(items).kind = "undefined" THEN <<"null">> ELSE JsonStringify(Head(items)))
       \o (IF Tail(items) = <<>> THEN <<>> ELSE <<",">> \o StringifyItems(Tail(items)))
StringifyMembers(members) ==
  LET kept == SelectSeq(members, LAMBDA m : m.value.kind # "undefined") IN
    IF kept = <<>> THEN <<>>
    ELSE <<"\"", Head(kept).key, "\"", ":">> \o JsonStringify(Head(kept).value)
         \o (IF Tail(kept) = <<>> THEN <<>> ELSE <<",">> \o StringifyMembers(Tail(kept)))
JsonStringify(v) ==
  CASE v.kind = "null" -> <<"null">>
    [] v.kind = "boolean" -> v.val
    [] v.kind = "string" -> <<"\"", v.val[1], "\"">>
    [] v.kind = "array" -> <<"[">> \o StringifyItems(v.val) \o <<"]">>
    [] v.kind = "object" -> <<"{">> \o StringifyMembers(v.val) \o <<"}">>
    [] OTHER -> <<>>

\* JSON.parse of a sequence of tokens: the value and the position after
\* it, or ok = FALSE for a SyntaxError.
Tok(t, i) == IF i \in 1..Len(t) THEN t[i] ELSE ""
SyntaxError == [ok |-> FALSE, v |-> JsUndefined, n |-> 0]
Parsed(v, n) == [ok |-> TRUE, v |-> v, n |-> n]
RECURSIVE ParseValue(_, _)
RECURSIVE ParseItems(_, _, _)
RECURSIVE ParseMembers(_, _, _)
ParseItems(t, i, acc) ==
  LET r == ParseValue(t, i) IN
    IF ~r.ok THEN SyntaxError
    ELSE IF Tok(t, r.n) = "," THEN ParseItems(t, r.n + 1, Append(acc, r.v))
    ELSE IF Tok(t, r.n) = "]" THEN Parsed(JsArray(Append(acc, r.v)), r.n + 1)
    ELSE SyntaxError
ParseMembers(t, i, acc) ==
  IF Tok(t, i) # "\"" \/ Tok(t, i + 2) # "\"" \/ Tok(t, i + 3) # ":" THEN SyntaxError
  ELSE LET r == ParseValue(t, i + 4) IN
    IF ~r.ok THEN SyntaxError
    ELSE IF Tok(t, r.n) = "," THEN ParseMembers(t, r.n + 1, Append(acc, Member(t[i + 1], r.v)))
    ELSE IF Tok(t, r.n) = "}"
      THEN Parsed(JsObject(Append(acc, Member(t[i + 1], r.v))), r.n + 1)
    ELSE SyntaxError
ParseValue(t, i) ==
  CASE Tok(t, i) = "null" -> Parsed(JsNull, i + 1)
    [] Tok(t, i) \in {"true", "false"} -> Parsed(JsBool(t[i] = "true"), i + 1)
    [] Tok(t, i) = "\"" ->
         IF Tok(t, i + 2) = "\"" THEN Parsed(JsString(t[i + 1]), i + 3) ELSE SyntaxError
    [] Tok(t, i) = "[" ->
         IF Tok(t, i + 1) = "]" THEN Parsed(JsArray(<<>>), i + 2) ELSE ParseItems(t, i + 1, <<>>)
    [] Tok(t, i) = "{" ->
         IF Tok(t, i + 1) = "}" THEN Parsed(JsObject(<<>>), i + 2) ELSE ParseMembers(t, i + 1, <<>>)
    [] OTHER -> SyntaxError

\* An argument that is no JSON text, as the value parseArgs returns for it.
RawArg(arg) == [kind |-> "raw", val |-> arg]

\* parseArgs (node-runner.ts lines 18-24).
parseArgs(arg) ==
  LET r == ParseValue(arg, 1) IN
    IF r.ok /\ r.n = Len(arg) + 1 THEN r.v ELSE RawArg(arg)

\* The envelope of line 69, its members in the order of the literal.
Envelope(o) ==
  JsObject(<<Member("data", o.data), Member("flows", o.flows),
             Member("traceId", JsString(o.traceId)),
             Member("contextInFirstArg", JsBool(o.contextInFirstArg)),
             Member("streams",
                    JsArray([i \in 1..Len(o.streams) |->
                               JsObject(<<Member("name", JsString(o.streams[i]))>>)]))>>)
EnvelopeKeys == {"data", "flows", "traceId", "contextInFirstArg", "streams"}

\* Variant: the envelope comes before the step file path.
SpawnArgs_EnvelopeFirst(r, path, jsonData) ==
  [i \in 1..Len(r.args) |-> <<r.args[i]>>] \o <<<<r.runner>>, jsonData, path>>

\* args of the ProcessManager (line 76).  Every argument is a sequence: a
\* flag or the runner file is a sequence of one string.
SpawnArgs(r, path, jsonData) ==
  [i \in 1..Len(r.args) |-> <<r.args[i]>>] \o <<<<r.runner>>, path, jsonData>>

\* process.argv of node: the executable, the script, then the arguments
\* after the script; -r and its module before the script are options of
\* node itself.
RECURSIVE NodeScriptArgs(_)
NodeScriptArgs(args) ==
  IF Len(args) >= 2 /\ Head(args) = <<"-r">> THEN NodeScriptArgs(Tail(Tail(args))) ELSE args
ProcessArgv(cmd, args) == <<<<cmd>>>> \o NodeScriptArgs(args)

\* The options callStepFile is called with.  data is a JSON value or
\* undefined (a step without a payload); config.flows is optional.
ArgvData ==
  {JsUndefined, JsNull, JsString("v1"), JsArray(<<JsString("v1"), JsNull>>), JsObject(<<>>),
   JsObject(<<Member("body", JsObject(<<Member("id", JsString("v1"))>>)),
              Member("ok", JsBool(TRUE))>>)}
ArgvFlows == {JsUndefined, JsArray(<<>>), JsArray(<<JsString("f1"), JsString("f2")>>)}
ArgvStreams == {<<>>, <<"s1">>, <<"s1", "s2">>}
ArgvPaths == {<<"s">> \o DotTs, <<"d", "/", "s">> \o DotJs}
ArgvOptions ==
  [data : ArgvData, flows : ArgvFlows, traceId : TraceIds, contextInFirstArg : BOOLEAN,
   streams : ArgvStreams, path : ArgvPaths]

InitArgv ==
  /\ InitCall
  /\ traceId = "t1"
  /\ filePath = <<"s">> \o DotTs
  /\ testMode \in BOOLEAN
  /\ invs = <<>>

\* callStepFile is called.
ArgvCall ==
  /\ argv.pc = "idle"
  /\ \E o \in ArgvOptions : argv' = [pc |-> "called", options |-> o]
  /\ UNCHANGED argvFrame

\* The executor up to the construction of the ProcessManager
\* (lines 67-79).
ArgvExecutor ==
  /\ argv.pc = "called"
  /\ LET r == getLanguageBasedRunner(argv.options.path) IN
       argv' = [pc |-> "spawned", options |-> argv.options, command |-> r.command,
                args |-> SpawnArgs(r, argv.options.path,
                                   JsonStringify(Envelope(argv.options)))]
  /\ UNCHANGED argvFrame

\* The runner starts: const [, , filePath, arg] = process.argv and
\* parseArgs(arg) (lines 81-88).
ArgvRunner ==
  /\ argv.pc = "spawned"
  /\ LET pargv == ProcessArgv(argv.command, argv.args) IN
       argv' = [pc |-> "read", options |-> argv.options, command |-> argv.command,
                args |-> argv.args, filePath |-> pargv[3], event |-> parseArgs(pargv[4])]
  /\ UNCHANGED argvFrame

NextArgv ==
  \/ ArgvCall
  \/ ArgvExecutor
  \/ ArgvRunner

SpecArgv == InitArgv /\ [][NextArgv]_vars

\* ------------------------------------- streams of LockedData during a call
\* lockedData.getStreams() is read once, at line 67; streamConfig is that
\* snapshot.  LockedData may gain and lose streams while the invocation
\* runs.
StreamNames == {"s1", "s2"}

\* A stream is added to or removed from LockedData: a new snapshot is
\* published, the one the invocation holds is left as it is.
LockedDataChanges ==
  /\ phase # "called"
  /\ \E names \in (SUBSET StreamNames) \ {lockedStreams} : lockedStreams' = names
  /\ UNCHANGED <<env, tag, argv, hook, registry, run, logger, chan, log, invs, traceId,
                 filePath, testMode, pmOptions, phase, handlers, pmClosed, promise, handled,
                 lastRpc>>
  /\ UNCHANGED procVars
  /\ UNCHANGED dataVars
  /\ UNCHANGED eventVars
  /\ UNCHANGED chanVars

\* The stream names the envelope of this invocation carries (lines 68-69).
EnvelopeStreamNames ==
  LET e == Envelope([data |-> JsUndefined, flows |-> JsUndefined, traceId |-> traceId,
                     contextInFirstArg |-> FALSE, streams |-> streamConfig])
  IN  {item.val[1].value.val[1] : item \in Range(JsGet(e, "streams").val)}

\* The stream names whose four handlers are registered, and those with a
\* handler at all.
RegisteredStreams == {n \in StreamNames : StreamMethods({n}) \subseteq handlers}
TouchedStreams == {n \in StreamNames : StreamMethods({n}) \cap handlers # {}}

NextSnapshot ==
  \/ Next
  \/ LockedDataChanges

SpecSnapshot == Init /\ [][NextSnapshot]_vars

\* ------------------------------------ Create Tag workflow: the new version
\* The step "Calculate new version" of wip-release.yml (lines 165-236)
\* without custom_version.  A version is its three numbers and its
\* pre-release identifiers; an identifier is a number or a word.
tagFrame ==
  <<env, lockedStreams, argv, traceId, filePath, testMode, pmOptions, phase, proc, exitCode,
    handlers, pmClosed, promise, result, store, streamItems, emitted, warnings, handled,
    lastRpc, delivered, closeDelivered, closeCode, errorDelivered, errorCode, buffer,
    violation, invs, log, chan, logger, run, registry, hook>>

NumId(n) == [numeric |-> TRUE, n |-> n, word |-> ""]
WordId(w) == [numeric |-> FALSE, n |-> 0, word |-> w]
Version(major, minor, patch, pre) ==
  [major |-> major, minor |-> minor, patch |-> patch, pre |-> pre]

\* The words of pre-release identifiers, and their ASCII order.
PrereleaseWords == {"alpha", "beta", "rc"}
WordLess(a, b) == <<a, b>> \in {<<"alpha", "beta">>, <<"alpha", "rc">>, <<"beta", "rc">>}

\* The tags git describe can return: stable versions and pre-releases
\* with a word, a number after the word, or both missing.
LatestTags ==
  {Version(ma, mi, pa, pre) :
     ma \in 0..MaxVersion, mi \in 0..1, pa \in 0..1,
     pre \in {<<>>} \cup {<<WordId(w)>> : w \in PrereleaseWords}
               \cup {<<WordId(w), NumId(n)>> : w \in PrereleaseWords, n \in 0..MaxVersion}}
VersionTypes == {"major", "minor", "patch", "prerelease", "prerelease-bump"}

\* Precedence of pre-release identifiers and of versions (semver 2.0.0,
\* item 11).
IdLess(a, b) ==
  IF a.numeric /\ b.numeric THEN a.n < b.n
  ELSE IF a.numeric # b.numeric THEN a.numeric
  ELSE WordLess(a.word, b.word)
RECURSIVE PreLess(_, _)
PreLess(p, q) ==
  IF p = <<>> THEN q # <<>>
  ELSE IF q = <<>> THEN FALSE
  ELSE IF Head(p) = Head(q) THEN PreLess(Tail(p), Tail(q))
  ELSE IdLess(Head(p), Head(q))
SemverLess(v, w) ==
  IF v.major # w.major THEN v.major < w.major
  ELSE IF v.minor # w.minor THEN v.minor < w.minor
  ELSE IF v.patch # w.patch THEN v.patch < w.patch
  ELSE IF v.pre = <<>> THEN FALSE
  ELSE IF w.pre = <<>> THEN TRUE
  ELSE PreLess(v.pre, w.pre)

\* The regular expression of line 187 on the latest tag: BASH_REMATCH 1,
\* 2, 3, 5 and 6 with their defaults (lines 188-192).
TagFields(latest) ==
  [major |-> latest.major, minor |-> latest.minor, patch |-> latest.patch,
   prerelease_part |-> IF latest.pre = <<>> THEN "" ELSE latest.pre[1].word,
   prerelease_num |-> IF Len(latest.pre) >= 2 THEN latest.pre[2].n ELSE 0]

Failed == [ok |-> FALSE, version |-> Version(0, 0, 0, <<>>)]
Computed(v) == [ok |-> TRUE, version |-> v]

\* The case statement of lines 201-231.
NewVersion(latest, version_type, prerelease_id) ==
  LET f == TagFields(latest) IN
    CASE version_type = "major" -> Computed(Version(f.major + 1, 0, 0, <<>>))
      [] version_type = "minor" -> Computed(Version(f.major, f.minor + 1, 0, <<>>))
      [] version_type = "patch" -> Computed(Version(f.major, f.minor, f.patch + 1, <<>>))
      [] version_type = "prerelease" ->
           IF f.prerelease_part # ""
             THEN Computed(Version(f.major, f.minor, f.patch,
                                   <<WordId(prerelease_id), NumId(1)>>))
             ELSE Computed(Version(f.major, f.minor, f.patch + 1,
                                   <<WordId(prerelease_id), NumId(1)>>))
      [] version_type = "prerelease-bump" ->
           IF f.prerelease_part # ""
             THEN Computed(Version(f.major, f.minor, f.patch,
                                   <<WordId(f.prerelease_part), NumId(f.prerelease_num + 1)>>))
             ELSE Failed
      [] OTHER -> Failed

InitTag ==
  /\ InitCall
  /\ traceId = "t1"
  /\ filePath = <<"s">> \o DotTs
  /\ testMode = FALSE
  /\ invs = <<>>

\* The step "Get latest tag" (lines 158-163).
TagLatest ==
  /\ tag.pc = "idle"
  /\ \E latest \in LatestTags : tag' = [pc |-> "latest", latest |-> latest]
  /\ UNCHANGED tagFrame

\* The step "Calculate new version" with the inputs of the dispatch.
TagCalculate ==
  /\ tag.pc = "latest"
  /\ \E version_type \in VersionTypes, prerelease_id \in PrereleaseWords :
       LET new == NewVersion(tag.latest, version_type, prerelease_id) IN
         tag' = [pc |-> IF new.ok THEN "done" ELSE "failed", latest |-> tag.latest,
                 version_type |-> version_type, prerelease_id |-> prerelease_id,
                 new_version |-> new.version]
  /\ UNCHANGED tagFrame

NextTag ==
  \/ TagLatest
  \/ TagCalculate

SpecTag == InitTag /\ [][NextTag]_vars

\* -------------------------------------------- activatePythonVenv (snap)
\* activate-python-env.ts lines 12-49 on a process environment and a file
\* system.  A path is the sequence of its segments; an environment
\* variable is set or not, PATH holds a list of paths.
envFrame ==
  <<tag, lockedStreams, argv, traceId, filePath, testMode, pmOptions, phase, proc, exitCode,
    handlers, pmClosed, promise, result, store, streamItems, emitted, warnings, handled,
    lastRpc, delivered, closeDelivered, closeCode, errorDelivered, errorCode, buffer,
    violation, invs, log, chan, logger, run, registry, hook>>

Unset == [set |-> FALSE, v |-> <<>>]
SetTo(v) == [set |-> TRUE, v |-> v]
EnvNames == {"PATH", "VIRTUAL_ENV", "PYTHON_SITE_PACKAGES", "PYTHONHOME"}
\* `${process.env.PATH}` in a template string: the entries of PATH, or the
\* text undefined when PATH is not set.
PathText(value) == IF value.set THEN value.v ELSE <<<<"undefined">>>>

BaseDirs == {<<"/p">>, <<"/q">>}
\* What findPythonSitePackagesDir returns: the directory found under lib,
\* or the one named after the requested version.
SitePackagesDirs == {"python3.13", "python3.12"}
\* The environments activatePythonVenv can be called in.
EnvStarts ==
  [PATH : {Unset, SetTo(<<<<"/usr", "bin">>>>),
           SetTo(<<<<"/p", "python_modules", "bin">>, <<"/usr", "bin">>>>)},
   VIRTUAL_ENV : {Unset, SetTo(<<"/old">>)},
   PYTHON_SITE_PACKAGES : {Unset, SetTo(<<"/old", "site-packages">>)},
   PYTHONHOME : {Unset, SetTo(<<"/usr">>)}]

\* Variant: the environment is set without looking for python_modules.
activatePythonVenv_Unchecked(e) ==
  LET venvPath == e.baseDir \o <<"python_modules">>
      venvBinPath == venvPath \o <<IF e.platform = "win32" THEN "Scripts" ELSE "bin">>
      sitePackagesPath == venvPath \o <<"lib", e.sitePackagesDir, "site-packages">>
  IN  [e EXCEPT
         !.vars = [e.vars EXCEPT
                     !.PATH = SetTo(<<venvBinPath>> \o PathText(e.vars.PATH)),
                     !.VIRTUAL_ENV = SetTo(venvPath),
                     !.PYTHON_SITE_PACKAGES = SetTo(sitePackagesPath),
                     !.PYTHONHOME = Unset],
         !.logs = Append(@, "info")]

\* activatePythonVenv (lines 12-49); logs holds the levels of the
\* internalLogger calls.
activatePythonVenv(e) ==
  LET venvPath == e.baseDir \o <<"python_modules">>
      venvBinPath == venvPath \o <<IF e.platform = "win32" THEN "Scripts" ELSE "bin">>
      sitePackagesPath == venvPath \o <<"lib", e.sitePackagesDir, "site-packages">>
      started == Append(e.logs, "info")
  IN  IF venvPath \in e.existing
        THEN [e EXCEPT
                !.vars = [e.vars EXCEPT
                            !.PATH = SetTo(<<venvBinPath>> \o PathText(e.vars.PATH)),
                            !.VIRTUAL_ENV = SetTo(venvPath),
                            !.PYTHON_SITE_PACKAGES = SetTo(sitePackagesPath),
                            !.PYTHONHOME = Unset],
                !.logs = IF e.isVerbose THEN started \o <<"info", "info">> ELSE started]
        ELSE [e EXCEPT !.logs = started \o <<"error", "error">>]

InitEnv ==
  /\ InitCall
  /\ traceId = "t1"
  /\ filePath = <<"s">> \o DotTs
  /\ testMode = FALSE
  /\ invs = <<>>

\* The process before the call: its environment, its platform, the
\* directories that exist, and the arguments of the call.
EnvStart ==
  /\ env.pc = "idle"
  /\ \E start \in EnvStarts, baseDir \in BaseDirs, platform \in {"linux", "win32"},
        existing \in SUBSET {b \o <<"python_modules">> : b \in BaseDirs},
        isVerbose \in BOOLEAN, dir \in SitePackagesDirs :
       env' = [pc |-> "ready", vars |-> start, before |-> start, baseDir |-> baseDir,
               platform |-> platform, existing |-> existing, isVerbose |-> isVerbose,
               sitePackagesDir |-> dir, logs |-> <<>>]
  /\ UNCHANGED envFrame

\* activatePythonVenv({ baseDir, isVerbose, pythonVersion }).
EnvActivate ==
  /\ env.pc = "ready"
  /\ env' = [activatePythonVenv(env) EXCEPT !.pc = "done"]
  /\ UNCHANGED envFrame

NextEnv ==
  \/ EnvStart
  \/ EnvActivate

SpecEnv == InitEnv /\ [][NextEnv]_vars

\* ------------------------------------------------------------- typing
TypeOK ==
  /\ traceId \in TraceIds
  /\ phase \in {"called", "threw", "spawning", "spawned", "running", "regFailed", "spawnFailed"}
  /\ Len(buffer) <= MaxBuffered
  /\ violation \in WorkerMethods \cup {""}
  /\ proc \in {"none", "running", "absent", "exited"}
  /\ handlers \subseteq AllMethods
  /\ promise.state \in {"pending", "resolved", "rejected"}
  /\ result \in Values \cup {Undefined}
  /\ handled \in 0..MaxRequests
  /\ Len(emitted) + Len(warnings) <= handled

\* ============================================================== claims
Served(method) == handled' = handled + 1 /\ lastRpc'.method = method
StateMutations == {"state.set", "state.delete", "state.clear"}
CloseArrives == closeDelivered' /\ ~closeDelivered

\* C1: an emit request of the worker is forwarded to eventManager.emit only
\* if its topic is one of the step's declared emits; for any other topic
\* eventManager.emit is not called and printInvalidEmit(step, topic) is
\* recorded.
C1_EmitOnlyDeclared ==
  [][ /\ emitted' # emitted =>
           /\ Served("emit")
           /\ isAllowedToEmit(step, lastRpc'.params.topic)
           /\ Len(emitted') = Len(emitted) + 1
           /\ emitted'[Len(emitted')].topic = lastRpc'.params.topic
      /\ (Served("emit") /\ ~isAllowedToEmit(step, lastRpc'.params.topic)) =>
           /\ emitted' = emitted
           /\ warnings' = Append(warnings, <<step.config.name, lastRpc'.params.topic>>)
    ]_vars

\* C1 witness: one emit was forwarded and another one was refused.
C1_Witness == Len(emitted) > 0 /\ Len(warnings) > 0

\* C2: every forwarded event carries the invocation's traceId and the
\* step's flows, and is the same event whatever traceId / flows the worker
\* put in its params.
C2_TraceInjected ==
  /\ \A i \in 1..Len(emitted) :
       /\ emitted[i].traceId = traceId
       /\ emitted[i].flows = step.config.flows
  /\ (lastRpc.method = "emit" /\ isAllowedToEmit(step, lastRpc.params.topic)) =>
       /\ Len(emitted) > 0
       /\ \A t \in TraceIds \cup {Absent}, f \in {<<>>, <<"forged">>} :
            ForwardedEvent([lastRpc.params EXCEPT !.traceId = t, !.flows = f])
              = emitted[Len(emitted)]

\* C2 witness: an emit whose params carried another trace and forged flows
\* was forwarded.
C2_Witness ==
  /\ lastRpc.method = "emit"
  /\ lastRpc.params.traceId \in TraceIds \ {traceId}
  /\ lastRpc.params.flows = <<"forged">>
  /\ isAllowedToEmit(step, lastRpc.params.topic)
  /\ Len(emitted) > 0

C4_SettlesOnce ==
  [][ /\ promise.state # "pending" => promise' = promise
      /\ (closeDelivered' \/ errorDelivered' \/ phase' \in {"threw", "spawnFailed", "regFailed"})
           => promise'.state # "pending"
    ]_vars

\* C4 witness: the error callback rejected, then the close callback ran
\* with code 0.
C4_Witness ==
  /\ errorDelivered
  /\ closeDelivered
  /\ closeCode = <<0>>
  /\ promise.state = "rejected"
  /\ promise.reason.msg = "error"

\* C5: a worker terminated by a signal (close code null) is reported as a
\* failure: the promise is rejected.
C5_SignalRejects ==
  (closeDelivered /\ closeCode = NullCode) => promise.state = "rejected"

\* C6 as stated: after a close with exit code 0 the promise is resolved
\* with the value of the result request, undefined if there was none.
C6_CleanExitResolves ==
  (closeDelivered /\ closeCode = <<0>>) =>
    (promise.state = "resolved" /\ promise.value = delivered)

\* C6 amended: when the close callback runs with exit code 0 and no error
\* callback has run before, the promise becomes resolved with the value of
\* the most recent result request, undefined if there was none.
C6_CleanExitResolvesUnlessError ==
  [][(CloseArrives /\ closeCode' = <<0>> /\ ~errorDelivered) =>
       (promise'.state = "resolved" /\ promise'.value = delivered)]_vars

\* C6 witness: exit code 0 after a result request, resolved with its value.
C6_Witness ==
  /\ closeDelivered
  /\ closeCode = <<0>>
  /\ delivered \in Values
  /\ promise.state = "resolved"
  /\ promise.value = delivered

\* C7 as stated: after a close with a nonzero exit code N the promise is
\* rejected with "Process exited with code N".
C7_NonzeroExitRejects ==
  (closeDelivered /\ closeCode # <<0>> /\ closeCode # NullCode) =>
    (promise.state = "rejected" /\ promise.reason = RejExit(closeCode))

\* C7 amended: when the close callback runs with a nonzero exit code N the
\* promise is rejected and never resolved, also after a result request;
\* the reason is "Process exited with code N" unless an error callback
\* has rejected it before.
C7_NonzeroExitRejectsUnlessError ==
  [][(CloseArrives /\ closeCode' # <<0>> /\ closeCode' # NullCode) =>
       /\ promise'.state = "rejected"
       /\ ~errorDelivered => promise'.reason = RejExit(closeCode')
    ]_vars

\* C7 witness: exit code 1 after a result request, rejected with the code.
C7_Witness ==
  /\ closeDelivered
  /\ closeCode = <<1>>
  /\ delivered \in Values
  /\ promise.state = "rejected"
  /\ promise.reason = RejExit(<<1>>)

\* C8: whenever the promise has settled after the supervisor was created,
\* processManager.close() has been called and no worker process of the invocation is running.
C8_ReleasedOnEveryExit ==
  (promise.state # "pending" /\ phase # "threw") => (pmClosed /\ proc # "running")

\* C9: once the promise has settled no RPC handler of the invocation is
\* invoked again.
C9_NoHandlerAfterTerminal ==
  [][promise.state # "pending" => handled' = handled]_vars

\* C10 as stated: once a result request has been handled no later request
\* of that worker is served.
C10_NothingAfterResult ==
  [][delivered # Undefined => handled' = handled]_vars

\* C10 amended: handling a result request only stores the value; it
\* leaves the registrations, the process and the promise as they are, and
\* the requests that follow it are served like any other: a further
\* result replaces the stored value, a declared emit is forwarded, a state
\* write is applied, close kills the worker.
C10_ServedAfterResult ==
  [][ /\ Served("result") =>
           /\ handlers' = handlers
           /\ proc' = proc
           /\ promise' = promise
           /\ pmClosed' = pmClosed
           /\ result' = lastRpc'.params.value
      /\ (delivered # Undefined /\ Served("emit")
            /\ isAllowedToEmit(step, lastRpc'.params.topic)) =>
           Len(emitted') = Len(emitted) + 1
      /\ (delivered # Undefined /\ Served("state.set")) =>
           store'[lastRpc'.params.traceId, lastRpc'.params.key] = lastRpc'.params.value
      /\ (delivered # Undefined /\ Served("close")) => proc' = "exited"
    ]_vars

\* C10 witness: an emit handled after a result request was forwarded.
C10_Witness ==
  /\ lastRpc.afterResult
  /\ lastRpc.method = "emit"
  /\ isAllowedToEmit(step, lastRpc.params.topic)
  /\ Len(emitted) > 0

\* ------------------------------------------------ claims C11 to C20
ErrorArrives == errorDelivered' /\ ~errorDelivered

\* C13 as stated: once a process error has been reported the promise is
\* rejected, with "Executable <command> not found" for ENOENT and with the
\* error itself otherwise, and it is never resolved.
C13_ProcessErrorRejects ==
  errorDelivered =>
    /\ promise.state = "rejected"
    /\ promise.reason =
         IF errorCode = "ENOENT" THEN RejNotFound(pmOptions.command) ELSE RejError(errorCode)

\* C13 amended: ENOENT always rejects with "Executable <command> not
\* found", <command> being the selected runner command; any other process
\* error rejects with the error itself when the promise is still pending
\* and leaves a promise the close callback has settled as it is, resolved
\* or rejected with the exit code.
C13_ProcessErrorRejectsIfPending ==
  /\ [](errorCode = "ENOENT" =>
          /\ promise.state = "rejected"
          /\ promise.reason = RejNotFound(pmOptions.command))
  /\ [][ErrorArrives =>
          /\ promise.state = "pending" =>
               /\ promise'.state = "rejected"
               /\ promise'.reason =
                    IF errorCode' = "ENOENT"
                      THEN RejNotFound(pmOptions.command)
                      ELSE RejError(errorCode')
          /\ promise.state # "pending" => (closeDelivered /\ promise' = promise)
          /\ pmClosed'
       ]_vars

\* C13 witness: the executable of a .ts step was missing and the promise
\* was rejected with "Executable node not found".
C13_Witness ==
  /\ errorDelivered
  /\ errorCode = "ENOENT"
  /\ promise.state = "rejected"
  /\ promise.reason = RejNotFound("node")

\* Served("emit") for a topic outside the step's declared emits.
InvalidEmitServed ==
  Served("emit") /\ ~isAllowedToEmit(step, lastRpc'.params.topic)

\* C11 as stated: after an emit to an undeclared topic was dropped, a close
\* with exit code 0 leaves the promise resolved.
C11_InvalidEmitThenCleanExitResolves ==
  (Len(warnings) > 0 /\ closeDelivered /\ closeCode = <<0>>) => promise.state = "resolved"

\* C11 amended: an emit to an undeclared topic is dropped (nothing is
\* handed to the event manager, a warning is printed), the worker gets a
\* normal response, and the promise, the worker and the handler
\* registrations are left as they were; when the close callback then runs
\* with exit code 0 and no error callback ran before it, the promise
\* resolves with the stored result.
C11_InvalidEmitDropped ==
  /\ [][InvalidEmitServed =>
          /\ emitted' = emitted
          /\ Len(warnings') = Len(warnings) + 1
          /\ lastRpc'.resp # RpcError
          /\ promise' = promise
          /\ proc' = proc
          /\ handlers' = handlers
          /\ phase' = phase
       ]_vars
  /\ [][(CloseArrives /\ Len(warnings) > 0 /\ closeCode' = <<0>> /\ ~errorDelivered) =>
          /\ promise'.state = "resolved"
          /\ promise'.value = result
       ]_vars

\* C11 witness: an emit of the undeclared topic c was dropped, the worker
\* went on to send its result and exited with code 0, and the promise
\* resolved with that result.
C11_Witness ==
  /\ Len(warnings) > 0
  /\ emitted = <<>>
  /\ closeDelivered
  /\ closeCode = <<0>>
  /\ ~errorDelivered
  /\ promise.state = "resolved"
  /\ promise.value = "v1"

Supported(path) ==
  \/ EndsWith(path, DotPy)
  \/ EndsWith(path, DotRb)
  \/ EndsWith(path, DotJs)
  \/ EndsWith(path, DotTs)

\* C14: for a step whose filePath ends in none of .py, .rb, .js, .ts the
\* promise is rejected with "Unsupported file extension" as soon as the
\* executor has run; no ProcessManager is constructed, no worker process
\* is spawned and no RPC handler is registered, and no request is served.
C14_UnsupportedIsFatal ==
  (~Supported(filePath) /\ phase # "called") =>
    /\ phase = "threw"
    /\ promise.state = "rejected"
    /\ promise.reason = RejUnsupported
    /\ pmOptions = NoRunner
    /\ proc = "none"
    /\ handlers = {}
    /\ handled = 0

\* C14 witness: the executor has run for the step file s.txt.
C14_Witness ==
  /\ filePath = <<"s", ".", "t", "x", "t">>
  /\ phase = "threw"
  /\ promise.state = "rejected"

\* The last three characters of a path.
Ext(path) ==
  IF Len(path) >= 3 THEN SubSeq(path, Len(path) - 2, Len(path)) ELSE <<>>

\* C15: the runner handed to the ProcessManager depends on the extension
\* of the step file only: .py gives python with the Python runner, .rb
\* ruby with the Ruby runner, .js and .ts node with the Node runner, the
\* .ts runner and -r ts-node/register exactly in test mode; a supported
\* path gets one of these and the spawn goes on, any other path gets none.
C15_RunnerByExtension ==
  phase # "called" =>
    LET ext == Ext(filePath) IN
      /\ ext = DotPy =>
           pmOptions = [command |-> "python", runner |-> "python/python-runner.py",
                        args |-> <<>>]
      /\ ext = DotRb =>
           pmOptions = [command |-> "ruby", runner |-> "ruby/ruby-runner.rb",
                        args |-> <<>>]
      /\ (ext \in {DotJs, DotTs} /\ testMode) =>
           pmOptions = [command |-> "node", runner |-> "node/node-runner.ts",
                        args |-> <<"-r", "ts-node/register">>]
      /\ (ext \in {DotJs, DotTs} /\ ~testMode) =>
           pmOptions = [command |-> "node", runner |-> "node/node-runner.js",
                        args |-> <<>>]
      /\ ext \in {DotPy, DotRb, DotJs, DotTs} <=> phase = "spawning"
      /\ ext \notin {DotPy, DotRb, DotJs, DotTs} <=> pmOptions = NoRunner

\* C15 witness: a step file ending in .py.ts got, in test mode, the .ts
\* Node runner behind ts-node/register.
C15_Witness ==
  /\ phase = "spawning"
  /\ filePath = <<"d", "/", "s">> \o DotPy \o DotTs
  /\ testMode
  /\ pmOptions.command = "node"
  /\ pmOptions.args = <<"-r", "ts-node/register">>

\* C16: once the handlers are registered, every stream request the Node
\* runner can send for a declared stream (get, update, delete, create) is
\* a registered method whose handler reads the fields the runner sends.
C16_RunnerStreamCallsRegistered ==
  (phase = "running" /\ ~pmClosed) =>
    \A n \in Range(streamConfig), op \in RunnerStreamOps :
      /\ StreamMethod(n, op) \in handlers
      /\ StreamHandlerParams(op) = RunnerStreamParams(op)

\* C17: when a request for a method without a handler was refused and the
\* close callback has run, the promise is rejected.
C17_UnknownMethodFails ==
  (violation # "" /\ closeDelivered) => promise.state = "rejected"

AuthorizedEmitServed ==
  Served("emit") /\ isAllowedToEmit(step, lastRpc'.params.topic)

\* C20: every authorized emit request hands exactly one event, of the
\* requested topic, to eventManager.emit, after the events handed over
\* before; no other step changes what was handed over.  So N authorized
\* emits give exactly N events, and with them N schedulings of a single
\* subscriber.
C20_OneEmitPerRequest ==
  /\ [][AuthorizedEmitServed =>
          /\ Len(emitted') = Len(emitted) + 1
          /\ SubSeq(emitted', 1, Len(emitted)) = emitted
          /\ emitted'[Len(emitted')].topic = lastRpc'.params.topic
       ]_vars
  /\ [][~AuthorizedEmitServed => emitted' = emitted]_vars

\* C20 witness: MaxRequests authorized emits were served, one of them next
\* to a refused one, and as many events were handed over.
C20_Witness ==
  /\ Len(emitted) >= 2
  /\ Len(warnings) = 1
  /\ handled = Len(emitted) + 1

\* The invocation has had an authorized emit forwarded.
Forwarded(inv) ==
  \E k \in 1..(inv.pc - 1) :
    /\ Script(inv.step)[k].method = "emit"
    /\ isAllowedToEmit(FlowStep(inv.step), Script(inv.step)[k].topic)

\* C12 as stated: an invocation whose emit was forwarded and whose worker
\* then exited with a nonzero code is rejected with that exit code.
C12_CrashAfterEmitReportsExitCode ==
  \A i \in 1..Len(invs) :
    (Forwarded(invs[i]) /\ invs[i].closeDone /\ invs[i].code = <<1>>) =>
      /\ invs[i].promise.state = "rejected"
      /\ invs[i].promise.reason = RejExit(invs[i].code)

\* C12 amended: a forwarded event and the invocations scheduled for its
\* subscribers are never taken back, whatever becomes of the emitting
\* worker; the close callback of a worker that exited with a nonzero code
\* rejects the invocation with that code unless its error callback ran
\* before (the rejection is then the error's); a step of one invocation
\* changes no other invocation, and an invocation is rejected only by its
\* own process error or its own nonzero exit.
C12_CrashAfterEmitIsolated ==
  /\ [][/\ Len(emitted') >= Len(emitted)
        /\ SubSeq(emitted', 1, Len(emitted)) = emitted
        /\ Len(invs') >= Len(invs)
        /\ \A j \in 1..Len(invs) : invs'[j].step = invs[j].step
        /\ Len(emitted') = Len(emitted) + 1 =>
             /\ Len(invs') = Len(invs) + Len(Subscribers(emitted'[Len(emitted')].topic))
             /\ \A k \in 1..(Len(invs') - Len(invs)) :
                  /\ invs'[Len(invs) + k].step = Subscribers(emitted'[Len(emitted')].topic)[k]
                  /\ invs'[Len(invs) + k].st = "scheduled"
       ]_vars
  /\ [][\A i \in 1..Len(invs) :
          (invs'[i].closeDone /\ ~invs[i].closeDone /\ invs[i].code = <<1>>
             /\ ~invs[i].errored) =>
            /\ invs'[i].promise.state = "rejected"
            /\ invs'[i].promise.reason = RejExit(<<1>>)
       ]_vars
  /\ [][\A i, j \in 1..Len(invs) :
          (i # j /\ invs'[i] # invs[i]) => invs'[j] = invs[j]
       ]_vars
  /\ [](\A j \in 1..Len(invs) :
          invs[j].promise.state = "rejected" =>
            (invs[j].errored \/ (invs[j].closeDone /\ invs[j].code = <<1>>)))

\* C12 witness: S1 crashed with code 1 after its emit of b was forwarded
\* and is rejected with that code, while the subscribers S2 and S3 of b
\* ran to their end and resolved.
C12_Witness ==
  /\ Len(invs) >= 3
  /\ Forwarded(invs[1])
  /\ invs[1].promise.state = "rejected"
  /\ invs[1].promise.reason = RejExit(<<1>>)
  /\ invs[2].promise.state = "resolved"
  /\ invs[3].promise.state = "resolved"
  /\ emitted[1].topic = "b"

RECURSIVE EmitsOf(_)
EmitsOf(calls) ==
  IF calls = <<>> THEN <<>>
  ELSE IF Head(calls).method = "emit" /\ isAllowedToEmit(step, Head(calls).params.topic)
         THEN <<ForwardedEvent(Head(calls).params)>> \o EmitsOf(Tail(calls))
         ELSE EmitsOf(Tail(calls))

\* The calls whose handler has been called.
Dispatched == SubSeq(chan.calls, 1, Len(chan.calls) - Len(chan.inbox))

\* C21: the i-th response a worker receives answers its i-th request, and
\* the events handed to eventManager.emit are those of the worker's
\* authorized emits handled so far, in the order the handler issued them.
C21_InRequestOrder ==
  /\ \A i \in 1..Len(chan.responses) : chan.responses[i].id = chan.calls[i].id
  /\ emitted = EmitsOf(Dispatched)

\* C21 witness: two emits issued without waiting for the first response
\* were forwarded and answered in their order.
C21_Witness ==
  /\ Len(chan.calls) >= 2
  /\ chan.calls[2].answered = 0
  /\ Len(emitted) = 2
  /\ emitted[1].data = "d2"
  /\ emitted[2].data = "d1"
  /\ Len(chan.responses) >= 2

\* C22: a handler that awaits a call makes no further call before the
\* response; every response is sent after the promise of the handler's
\* call has resolved, so the event of an answered authorized emit has
\* been handed to eventManager.emit and emit has returned, and a
\* state.get issued after the response to a state.set of the same entry
\* returns the written value.
C22_ResponseAfterEffect ==
  /\ \A i \in 1..Len(chan.calls), j \in 1..Len(chan.calls) :
       (i < j /\ chan.calls[i].awaited) => chan.calls[j].answered >= i
  /\ \A i \in 1..Len(chan.responses) :
       /\ chan.responses[i].landed
       /\ Len(EmitsOf(SubSeq(chan.calls, 1, chan.responses[i].id))) <= Len(emitted)
  /\ \A i \in 1..Len(chan.responses), j \in 1..Len(chan.responses) :
       (/\ chan.calls[chan.responses[i].id].method = "state.set"
        /\ chan.calls[chan.responses[j].id].method = "state.get"
        /\ chan.calls[chan.responses[j].id].answered >= i)
       => chan.responses[j].resp = chan.calls[chan.responses[i].id].params.value

\* C22 witness: an awaited state.set was answered, then a state.get
\* returned the written value.
C22_Witness ==
  /\ Len(chan.responses) >= 2
  /\ chan.calls[1].method = "state.set"
  /\ chan.calls[1].awaited
  /\ chan.calls[2].method = "state.get"
  /\ chan.calls[2].answered = 1
  /\ chan.responses[2].resp = "v1"

\* The request writes or removes the entry (t, k).
Overwrites(e, t, k) ==
  \/ e.method \in {"state.set", "state.delete"} /\ e.params.traceId = t /\ e.params.key = k
  \/ e.method = "state.clear" /\ e.params.traceId = t

\* The store a request found: the one its predecessor left.
StoreBefore(j) ==
  IF j = 1 THEN [t \in TraceIds, k \in Keys |-> Null] ELSE log[j - 1].after

\* C23: a state.get(t, k) served after a state.set(t, k, v), with no
\* state.set(t, k, _), state.delete(t, k) or state.clear(t) served in
\* between, returns v, whatever was served in between on other keys and
\* other traces.
C23_GetReturnsLastSet ==
  \A i \in 1..Len(log), j \in 1..Len(log) :
    (/\ i < j
     /\ log[i].method = "state.set"
     /\ log[j].method = "state.get"
     /\ log[j].params.traceId = log[i].params.traceId
     /\ log[j].params.key = log[i].params.key
     /\ \A m \in (i + 1)..(j - 1) :
          ~Overwrites(log[m], log[i].params.traceId, log[i].params.key))
    => log[j].resp = log[i].params.value

\* C23 witness: set(t2, k1, v1), then a set on the same key of trace t1,
\* then get(t2, k1) returned v1.
C23_Witness ==
  /\ Len(log) = 3
  /\ log[1].method = "state.set"
  /\ log[1].params.traceId = "t2" /\ log[1].params.key = "k1" /\ log[1].params.value = "v1"
  /\ log[2].method = "state.set"
  /\ log[2].params.traceId = "t1" /\ log[2].params.key = "k1" /\ log[2].params.value = "v2"
  /\ log[3].method = "state.get"
  /\ log[3].params.traceId = "t2" /\ log[3].params.key = "k1"
  /\ log[3].resp = "v1"

\* C24: a state.get of an entry that was never set, or whose last write
\* was a delete or a clear, returns null; a state.delete removes (t, k)
\* and nothing else, returns without error, and on an entry that is
\* absent leaves the store as it was.
C24_DeleteIdempotent ==
  \A j \in 1..Len(log) :
    /\ (log[j].method = "state.get"
          /\ \A i \in 1..(j - 1) :
               (log[i].method = "state.set"
                  /\ log[i].params.traceId = log[j].params.traceId
                  /\ log[i].params.key = log[j].params.key)
               => \E m \in (i + 1)..(j - 1) :
                    /\ log[m].method \in {"state.delete", "state.clear"}
                    /\ Overwrites(log[m], log[j].params.traceId, log[j].params.key))
         => log[j].resp = Null
    /\ log[j].method = "state.delete" =>
         /\ log[j].resp # RpcError
         /\ log[j].after[log[j].params.traceId, log[j].params.key] = Null
         /\ \A x \in DOMAIN log[j].after :
              x # <<log[j].params.traceId, log[j].params.key>>
                => log[j].after[x] = StoreBefore(j)[x]
         /\ StoreBefore(j)[log[j].params.traceId, log[j].params.key] = Null
              => log[j].after = StoreBefore(j)

\* C24 witness: set(t1, k1, v1); delete(t1, k1); delete(t1, k1) with the
\* second delete leaving the store as the first left it.
C24_Witness ==
  /\ Len(log) = 3
  /\ log[1].method = "state.set"
  /\ log[1].params.traceId = "t1" /\ log[1].params.key = "k1"
  /\ log[2].method = "state.delete" /\ log[2].params = [log[1].params EXCEPT !.value = Absent]
  /\ log[3].method = "state.delete" /\ log[3].params = log[2].params
  /\ log[3].after = log[2].after
  /\ log[2].after # log[1].after

\* C25: a state.clear(t) leaves no entry under t, leaves every entry
\* under another trace as it was, and on a trace without entries leaves
\* the store as it was.
C25_ClearScopedToTrace ==
  \A j \in 1..Len(log) :
    log[j].method = "state.clear" =>
      /\ \A k \in Keys : log[j].after[log[j].params.traceId, k] = Null
      /\ \A t \in TraceIds \ {log[j].params.traceId}, k \in Keys :
           log[j].after[t, k] = StoreBefore(j)[t, k]
      /\ (\A k \in Keys : StoreBefore(j)[log[j].params.traceId, k] = Null)
           => log[j].after = StoreBefore(j)

\* C25 witness: with entries under t1 and t2, clear(t1) removed the one
\* under t1 and kept the one under t2.
C25_Witness ==
  /\ Len(log) = 3
  /\ log[1].method = "state.set" /\ log[1].params.traceId = "t1"
  /\ log[2].method = "state.set" /\ log[2].params.traceId = "t2"
  /\ log[3].method = "state.clear" /\ log[3].params.traceId = "t1"
  /\ \A k \in Keys : store["t1", k] = Null
  /\ \E k \in Keys : store["t2", k] # Null

\* The last call before call j that loaded, changed or removed the step
\* of that name; 0 when there is none.
LastChange(j, name) ==
  LET changes == {i \in 1..(j - 1) :
                    /\ registry.history[i].op \in {"add", "update", "remove"}
                    /\ registry.history[i].name = name}
  IN  IF changes = {} THEN 0 ELSE CHOOSE i \in changes : \A k \in changes : k <= i

\* C26: an emit starts no invocation of a step whose last registry call
\* before the emit was removeStep, and none of a step that was loaded
\* again (addStep or updateStep) without the topic of the emit.
C26_RemovedStepNotInvoked ==
  \A j \in 1..Len(registry.history) :
    registry.history[j].op = "emit" =>
      \A name \in RegistryStepNames :
        LET i == LastChange(j, name) IN
          (i > 0 /\ (\/ registry.history[i].op = "remove"
                     \/ registry.history[j].topic \notin registry.history[i].subscribes)) =>
            name \notin registry.history[j].started

\* C26 witness: S subscribed a and an emit on a invoked it; S was removed
\* and added again subscribing b only; the next emit on a invoked nothing.
C26_Witness ==
  /\ Len(registry.history) = 5
  /\ registry.history[1] = RegistryCall("add", "S", {"a"}, "", {})
  /\ registry.history[2] = RegistryCall("emit", "", {}, "a", {"S"})
  /\ registry.history[3] = RegistryCall("remove", "S", {"a"}, "", {})
  /\ registry.history[4] = RegistryCall("add", "S", {"b"}, "", {})
  /\ registry.history[5] = RegistryCall("emit", "", {}, "a", {})

\* C27: when the handler threw and the close callback has run, the
\* promise is rejected with a reason that carries the handler's error
\* message.
C27_FailureCarriesErrorString ==
  (run.error \in HandlerErrors /\ closeDelivered) =>
    /\ promise.state = "rejected"
    /\ promise.reason.text = run.error

\* C28: the worker of an invocation is spawned once: the executor enters
\* processManager.spawn() only from the start of the call, a process that
\* exists is never replaced by a new one, and a process that has ended
\* stays ended.
C28_SpawnsAtMostOnce ==
  [][/\ phase' = "spawning" => phase \in {"called", "spawning"}
     /\ proc # "none" => proc' \in {proc, "exited"}
     /\ proc = "exited" => proc' = "exited"]_vars

\* C28 witness: the worker exited with code 1, the close callback has
\* rejected the promise, and the process is still the ended one.
C28_Witness ==
  /\ closeDelivered
  /\ closeCode = <<1>>
  /\ promise.state = "rejected"
  /\ promise.reason = RejExit(<<1>>)
  /\ proc = "exited"
  /\ phase = "running"

\* C29: a subscription the hook opened is open only while the hook is
\* mounted and only as the one opened by the last run of the effect, for
\* the stream, streamName and id of that run; every earlier one, and every
\* one of an unmounted hook, has been closed.
C29_SubscriptionsClosed ==
  \A i \in 1..Len(hook.subs) :
    hook.subs[i].open =>
      /\ hook.mounted
      /\ ~hook.gone
      /\ i = hook.cleanup
      /\ i = Len(hook.subs)
      /\ hook.deps = [stream |-> hook.subs[i].stream,
                      streamName |-> hook.subs[i].streamName, id |-> hook.subs[i].id]

\* C29 witness: the hook subscribed item i1, then item i2 after id changed,
\* then was unmounted; both subscriptions are closed.
C29_Witness ==
  /\ hook.gone
  /\ Len(hook.subs) = 2
  /\ hook.subs[1].id = "i1"
  /\ hook.subs[2].id = "i2"
  /\ ~hook.subs[1].open
  /\ ~hook.subs[2].open

C31_EnvelopeRoundTrip ==
  /\ argv.pc \in {"spawned", "read"} =>
       LET r == getLanguageBasedRunner(argv.options.path)
           n == Len(r.args)
       IN  /\ Len(argv.args) = n + 3
           /\ \A i \in 1..n : argv.args[i] = <<r.args[i]>>
           /\ argv.args[n + 1] = <<r.runner>>
           /\ argv.args[n + 2] = argv.options.path
           /\ argv.args[n + 3] = JsonStringify(Envelope(argv.options))
  /\ argv.pc = "read" =>
       /\ argv.filePath = argv.options.path
       /\ argv.event.kind = "object"
       /\ \A k \in EnvelopeKeys : JsGet(argv.event, k) = JsGet(Envelope(argv.options), k)

\* C31 witness: in test mode (flags -r ts-node/register) the runner read
\* an envelope with an object as data, no flows and two streams.
C31_Witness ==
  /\ argv.pc = "read"
  /\ testMode
  /\ Len(argv.args) = 5
  /\ argv.options.flows = JsUndefined
  /\ JsGet(JsGet(JsGet(argv.event, "data"), "body"), "id") = JsString("v1")
  /\ JsGet(argv.event, "flows") = JsUndefined
  /\ Len(JsGet(argv.event, "streams").val) = 2

C35_SpawnFailureOnlyWithoutWorker ==
  /\ (promise.state = "rejected" /\ promise.reason.msg = "Failed to spawn process") =>
       proc \in {"none", "absent"}
  /\ (promise.state # "pending" /\ proc \in {"running", "exited"}) =>
       (closeDelivered \/ errorDelivered)

\* C36: the hook has at most one open subscription, none once the effect
\* has run with id or streamName missing, and the data a render returns
\* for its args was delivered by a subscription for the same streamName
\* and id.
C36_NoStaleData ==
  /\ Cardinality({i \in 1..Len(hook.subs) : hook.subs[i].open}) <= 1
  /\ (~hook.dirty /\ (hook.args.id = "" \/ hook.args.streamName = "")) =>
       \A i \in 1..Len(hook.subs) : ~hook.subs[i].open
  /\ hook.returned.from # 0 =>
       /\ hook.subs[hook.returned.from].streamName = hook.returned.streamName
       /\ hook.subs[hook.returned.from].id = hook.returned.id

\* C37: a new version the step computed is higher in precedence than the
\* latest tag; major resets minor and patch, minor resets patch, and
\* prerelease-bump fails exactly on a stable latest tag.
C37_NewTagGreater ==
  /\ tag.pc = "done" =>
       /\ SemverLess(tag.latest, tag.new_version)
       /\ tag.version_type = "major" =>
            (tag.new_version.minor = 0 /\ tag.new_version.patch = 0)
       /\ tag.version_type = "minor" => tag.new_version.patch = 0
  /\ tag.pc = "failed" =>
       (tag.version_type = "prerelease-bump" /\ tag.latest.pre = <<>>)

\* C38: after activatePythonVenv, when <baseDir>/python_modules exists
\* PATH is the venv bin directory followed by the previous PATH,
\* VIRTUAL_ENV is the venv path, PYTHON_SITE_PACKAGES is the site-packages
\* path under it, PYTHONHOME is not set and no error is logged; when it
\* does not exist the four variables are as before and an error is
\* logged.
C38_VenvActivation ==
  env.pc = "done" =>
    LET venvPath == env.baseDir \o <<"python_modules">> IN
      IF venvPath \in env.existing
        THEN /\ env.vars.PATH.set
             /\ Head(env.vars.PATH.v) \in {venvPath \o <<"bin">>, venvPath \o <<"Scripts">>}
             /\ (Head(env.vars.PATH.v) = venvPath \o <<"Scripts">>) <=> (env.platform = "win32")
             /\ Tail(env.vars.PATH.v) = PathText(env.before.PATH)
             /\ env.vars.VIRTUAL_ENV = SetTo(venvPath)
             /\ env.vars.PYTHON_SITE_PACKAGES.set
             /\ SubSeq(env.vars.PYTHON_SITE_PACKAGES.v, 1, Len(venvPath)) = venvPath
             /\ ~env.vars.PYTHONHOME.set
             /\ "error" \notin Range(env.logs)
        ELSE /\ \A n \in EnvNames : env.vars[n] = env.before[n]
             /\ "error" \in Range(env.logs)

\* C38 witness: python_modules exists under /q only, PYTHONHOME was set;
\* the call for /q has put its bin directory first in PATH and removed
\* PYTHONHOME.
C38_Witness ==
  /\ env.pc = "done"
  /\ env.baseDir = <<"/q">>
  /\ env.existing = {<<"/q", "python_modules">>}
  /\ env.before.PYTHONHOME.set
  /\ env.before.PATH = SetTo(<<<<"/usr", "bin">>>>)
  /\ env.vars.PATH = SetTo(<<<<"/q", "python_modules", "bin">>, <<"/usr", "bin">>>>)
  /\ ~env.vars.PYTHONHOME.set

============================================================================
